---- MODULE Spec2Model ----
(***************************************************************************)
(* The request router of beego (router.go): the ControllerRegister with    *)
(* its per-verb route table and its five filter lists, and ServeHTTP as a  *)
(* step machine that is cut at every call into user code or into a         *)
(* collaborator (filter callbacks, the static file server, the session     *)
(* store, the handlers, the controller hooks, the deferred calls).         *)
(*                                                                         *)
(* Strings that the router only compares are kept as strings.  A path or   *)
(* a pattern is the sequence of its segments: "/a/:id" is <<"a", ":id">>.  *)
(***************************************************************************)
EXTENDS Integers, Sequences, FiniteSets, TLC

\* ------------------------------------------------------------------------
\* Bounds of the model
\* ------------------------------------------------------------------------

\* how many registration calls (Add, AddMethod, Handler, InsertFilter) a run makes
MaxRegistrations == 2

\* ------------------------------------------------------------------------
\* Program constants
\* ------------------------------------------------------------------------

BeforeStatic == 0
BeforeRouter == 1
BeforeExec == 2
AfterExec == 3
FinishRouter == 4

routerTypeBeego == 0
routerTypeRESTFul == 1
routerTypeHandler == 2

HTTPMETHOD ==
  {"GET", "POST", "PUT", "DELETE", "PATCH", "OPTIONS", "HEAD", "TRACE", "CONNECT"}

\* ------------------------------------------------------------------------
\* Strings
\* ------------------------------------------------------------------------

\* strings.ToUpper on the verb tokens and method names the model uses
ToUpper(s) ==
  CASE s = "get" -> "GET"
    [] s = "post" -> "POST"
    [] s = "put" -> "PUT"
    [] s = "delete" -> "DELETE"
    [] s = "brew" -> "BREW"
    [] s = "Get" -> "GET"
    [] s = "List" -> "LIST"
    [] OTHER -> s

\* strings.ToLower on one path segment
ToLowerSeg(s) ==
  CASE s = "A" -> "a"
    [] s = "X" -> "x"
    [] s = "User" -> "user"
    [] OTHER -> s

\* strings.ToLower on a path or a pattern
ToLower(p) == [i \in 1..Len(p) |-> ToLowerSeg(p[i])]

\* path.Join(pattern, "?:all")
JoinAll(pattern) == Append(pattern, "?:all")

\* fmt.Sprint of a bool
B(b) == IF b THEN "true" ELSE "false"

\* fmt.Sprint of a value given to panic: the abort sentinel is an error value
\* and prints as its message, a string prints as itself
ErrAbort == "ErrAbort"
Sprint(err) == IF err = ErrAbort THEN "User stop run" ELSE err

\* ------------------------------------------------------------------------
\* Maps with string keys (map[string]string): sets of <<key, value>> pairs
\* ------------------------------------------------------------------------

HasKey(m, k) == \E e \in m : e[1] = k
Lookup(m, k) == (CHOOSE e \in m : e[1] = k)[2]
Put(m, k, v) == {e \in m : e[1] # k} \cup {<<k, v>>}
Keys(m) == {e[1] : e \in m}

\* ------------------------------------------------------------------------
\* The path trie (Tree): one leaf per registered pattern, in registration
\* order.  Lookup prefers a literal segment to a wildcard at every depth
\* and, among leaves that tie, the leaf registered first.
\* ------------------------------------------------------------------------

NewTree == <<>>

AddRouter(t, pattern, runObject) ==
  Append(t, [pattern |-> pattern, runObject |-> runObject])

IsCatchAll(seg) == seg \in {"*", "?:all"}
\* ":name": a named wildcard
IsNamed(seg) == seg \in {":id", ":a", ":b"}
\* "?:name": a named wildcard that may be absent
IsOptional(seg) == seg \in {"?:a", "?:b"}
IsWildcard(seg) == IsNamed(seg) \/ IsOptional(seg) \/ IsCatchAll(seg)

RECURSIVE MatchPattern(_, _)
MatchPattern(pattern, path) ==
  IF pattern = <<>> THEN path = <<>>
  ELSE IF IsCatchAll(Head(pattern)) THEN TRUE
  ELSE IF IsOptional(Head(pattern))
  THEN \/ MatchPattern(Tail(pattern), path)
       \/ path # <<>> /\ MatchPattern(Tail(pattern), Tail(path))
  ELSE IF path = <<>> THEN FALSE
  ELSE IF IsNamed(Head(pattern)) THEN MatchPattern(Tail(pattern), Tail(path))
  ELSE Head(pattern) = Head(path) /\ MatchPattern(Tail(pattern), Tail(path))

\* 0 where the pattern spends a literal on segment i of the path, 1 where
\* a wildcard takes it
SegKind(pattern, i) ==
  IF i <= Len(pattern) /\ ~IsWildcard(pattern[i])
     /\ \A j \in 1..i : ~IsCatchAll(pattern[j])
  THEN 0 ELSE 1

\* does pattern p come before pattern q in the walk over path (literal first)
Before(p, q, path) ==
  \E i \in 1..Len(path) :
    /\ SegKind(p, i) < SegKind(q, i)
    /\ \A j \in 1..(i - 1) : SegKind(p, j) = SegKind(q, j)

Matching(t, path) == {i \in 1..Len(t) : MatchPattern(t[i].pattern, path)}

\* Tree.Match: the index of the leaf found, 0 for a miss
MatchLeaf(t, path) ==
  LET ms == Matching(t, path) IN
  IF ms = {} THEN 0
  ELSE CHOOSE i \in ms :
         \A j \in ms \ {i} :
           \/ Before(t[i].pattern, t[j].pattern, path)
           \/ (~Before(t[j].pattern, t[i].pattern, path) /\ i < j)

\* FilterRouter.ValidRouter: the filter's own tree holds its one pattern
ValidRouter(filterR, path) == MatchPattern(filterR.tree, path)

\* ------------------------------------------------------------------------
\* Controllers and routes
\* ------------------------------------------------------------------------

\* reflect: the exported methods of the controller type the model registers
ControllerMethods(c) ==
  IF c = "UserController"
  THEN {"Get", "Post", "Put", "Delete", "Head", "Patch", "Options", "List"}
  ELSE {}

\* a nil *controllerInfo
NoRoute ==
  [pattern |-> <<>>, controllerType |-> "nil", methods |-> {},
   handler |-> "nil", runFunction |-> "nil", routerType |-> routerTypeBeego]

\* ------------------------------------------------------------------------
\* State
\* ------------------------------------------------------------------------

VARIABLES
  RouterCaseSensitive,  \* the process-wide setting of that name
  routers,              \* ControllerRegister.routers: verb -> Tree
  enableFilter,         \* ControllerRegister.enableFilter
  filters,              \* ControllerRegister.filters: position -> list of FilterRouter
  registrations,        \* how many registration calls were made
  url                   \* the last URLFor call: its arguments and what it returned

VARIABLES
  pc,            \* where ServeHTTP stands; "idle" between requests
  r,             \* the request: Method, Path (r.URL.Path), _method (the query value)
  urlPath,       \* the path the request is routed by
  started,       \* responseWriter.started
  status,        \* responseWriter.status
  rwHeader,      \* the status line the underlying writer has sent, 0 for none
  OutputStatus,  \* context.Output.Status
  RunController, \* context.Input.RunController
  RunMethod,     \* context.Input.RunMethod
  CruSession,    \* context.Input.CruSession
  findrouter,
  runrouter,
  runMethod,
  routerInfo,
  pos,           \* doFilter: the position being run
  idx,           \* doFilter: the index of the next filter of that position
  defers,        \* the deferred calls of ServeHTTP, last deferred first
  err,           \* the value the request panicked with, "nil" for none
  settings,      \* the process-wide settings, as far as the request has read them
  log            \* what the request has called so far, in order

regVars == <<RouterCaseSensitive, routers, enableFilter, filters, registrations, url>>
ctxVars == <<started, status, rwHeader, OutputStatus, RunController, RunMethod>>
reqVars ==
  <<r, urlPath, CruSession, findrouter, runrouter, runMethod, routerInfo,
    pos, idx, defers, err>>
vars == <<regVars, pc, ctxVars, reqVars, settings, log>>

\* ------------------------------------------------------------------------
\* Inputs
\* ------------------------------------------------------------------------

Patterns == {<<"A">>}
FilterPatterns == {<<"a">>}
Paths == {<<"A">>}
\* the requests: verb, path and the _method query value
Requests ==
  {[Method |-> m, Path |-> p, _method |-> o] :
     m \in {"GET", "POST"}, p \in Paths, o \in {"", "PUT"}}
  \cup {[Method |-> "POST", Path |-> p, _method |-> "DELETE"] : p \in Paths}
  \cup {[Method |-> "BREW", Path |-> p, _method |-> ""] : p \in Paths}
Controllers == {"UserController"}
\* the mappingMethods argument of Add: absent, or one string of items
\* "verb,verb:Method" joined by ";"
Mappings ==
  { <<>>,
    << << << <<"*">>, "List" >> >> >>,
    << << << <<"get">>, "List" >> >> >>,
    << << << <<"get">>, "List" >>, << <<"brew">>, "List" >> >> >>,
    << << << <<"get">>, "Nope" >> >> >>,
    << << << <<"get">> >> >> >> }
AddMethodVerbs == {"put", "*", "brew"}
HandlerOptions == {<<>>, <<TRUE>>, <<FALSE>>}
FilterParams == {<<>>, <<TRUE>>, <<FALSE>>}

\* ------------------------------------------------------------------------
\* NewControllerRegister, and the request-free state
\* ------------------------------------------------------------------------

NoRequest == [Method |-> "", Path |-> <<>>, _method |-> ""]
\* the string "", which URLFor returns when it finds no URL
EmptyURL == [empty |-> TRUE, path |-> <<>>, query |-> {}]
\* URLFor has not been called
NoCall == [endpoint |-> <<>>, values |-> <<>>, result |-> EmptyURL]

Init ==
  /\ RouterCaseSensitive \in BOOLEAN
  /\ routers = [m \in {} |-> NewTree]
  /\ enableFilter = FALSE
  /\ filters = [p \in {} |-> <<>>]
  /\ registrations = 0
  /\ url = NoCall
  /\ pc = "idle"
  /\ r = NoRequest
  /\ urlPath = <<>>
  /\ started = FALSE
  /\ status = 0
  /\ rwHeader = 0
  /\ OutputStatus = 0
  /\ RunController = "nil"
  /\ RunMethod = ""
  /\ CruSession = "nil"
  /\ findrouter = FALSE
  /\ runrouter = "nil"
  /\ runMethod = ""
  /\ routerInfo = NoRoute
  /\ pos = BeforeStatic
  /\ idx = 0
  /\ defers = <<>>
  /\ err = "nil"
  /\ settings = {}
  /\ log = <<>>

\* ------------------------------------------------------------------------
\* Registration
\* ------------------------------------------------------------------------

\* registration happens between requests, MaxRegistrations times at most
CanRegister == pc = "idle" /\ registrations < MaxRegistrations

\* a registration panicked: a fatal configuration error, the process ends
Fatal ==
  /\ pc' = "fatal"
  /\ registrations' = registrations + 1
  /\ UNCHANGED <<RouterCaseSensitive, routers, enableFilter, filters, url>>

addToRouter(rs, method, pattern, route) ==
  LET pat == IF ~RouterCaseSensitive THEN ToLower(pattern) ELSE pattern IN
  IF method \in DOMAIN rs
  THEN [rs EXCEPT ![method] = AddRouter(@, pat, route)]
  ELSE (method :> AddRouter(NewTree, pat, route)) @@ rs

\* for _, m := range HTTPMETHOD { p.addToRouter(m, pattern, route) }, and the
\* same loop over one verb
RECURSIVE AddEach(_, _, _, _)
AddEach(rs, verbs, pattern, route) ==
  IF verbs = {} THEN rs
  ELSE LET m == CHOOSE m \in verbs : TRUE IN
       AddEach(addToRouter(rs, m, pattern, route), verbs \ {m}, pattern, route)

\* every key of route.methods taken for "*"
VerbsOfKeyEvery(k) == HTTPMETHOD

\* the verbs a key of route.methods is added under
VerbsOfKey(k) == IF k = "*" THEN HTTPMETHOD ELSE {k}

\* for k := range methods { ... }
RECURSIVE AddKeys(_, _, _, _)
AddKeys(rs, keys, pattern, route) ==
  IF keys = {} THEN rs
  ELSE LET k == CHOOSE k \in keys : TRUE IN
       AddKeys(AddEach(rs, VerbsOfKey(k), pattern, route), keys \ {k}, pattern, route)

\* a parse that does not ask whether the controller has the method
ItemPanicsMethodUnchecked(item, c) ==
  \/ Len(item) # 2
  \/ \E i \in 1..Len(item[1]) :
       ~(item[1][i] = "*" \/ ToUpper(item[1][i]) \in HTTPMETHOD)

\* Add, the parse of one item "verbs:Method": does it panic
ItemPanics(item, c) ==
  \/ Len(item) # 2
  \/ \E i \in 1..Len(item[1]) :
       ~(item[1][i] = "*" \/ ToUpper(item[1][i]) \in HTTPMETHOD)
  \/ item[2] \notin ControllerMethods(c)

\* Add, the methods map one valid item contributes to
RECURSIVE ItemMethods(_, _, _)
ItemMethods(methods, verbs, name) ==
  IF verbs = <<>> THEN methods
  ELSE ItemMethods(Put(methods, ToUpper(Head(verbs)), name), Tail(verbs), name)

\* Add, the methods map of a mapping string all of whose items are valid
RECURSIVE ParseMapping(_, _)
ParseMapping(methods, semi) ==
  IF semi = <<>> THEN methods
  ELSE ParseMapping(ItemMethods(methods, Head(semi)[1], Head(semi)[2]), Tail(semi))

AddPanics(c, mappingMethods) ==
  /\ Len(mappingMethods) > 0
  /\ \E i \in 1..Len(mappingMethods[1]) : ItemPanics(mappingMethods[1][i], c)

AddRoute(pattern, c, mappingMethods) ==
  LET methods == IF Len(mappingMethods) > 0
                 THEN ParseMapping({}, mappingMethods[1]) ELSE {}
  IN [pattern |-> pattern, controllerType |-> c, methods |-> methods,
      handler |-> "nil", runFunction |-> "nil", routerType |-> routerTypeBeego]

Add(pattern, c, mappingMethods) ==
  /\ CanRegister
  /\ IF AddPanics(c, mappingMethods)
     THEN Fatal
     ELSE LET route == AddRoute(pattern, c, mappingMethods) IN
          /\ routers' = IF Cardinality(route.methods) = 0
                        THEN AddEach(routers, HTTPMETHOD, pattern, route)
                        ELSE AddKeys(routers, Keys(route.methods), pattern, route)
          /\ registrations' = registrations + 1
          /\ UNCHANGED <<RouterCaseSensitive, enableFilter, filters, pc, url>>
  /\ UNCHANGED <<ctxVars, reqVars, settings, log>>

AddMethodRoute(method, pattern, f) ==
  [pattern |-> pattern, controllerType |-> "nil",
   methods |-> IF method = "*" THEN {<<m, m>> : m \in HTTPMETHOD}
               ELSE {<<ToUpper(method), ToUpper(method)>>},
   handler |-> "nil", runFunction |-> f, routerType |-> routerTypeRESTFul]

AddMethod(method, pattern, f) ==
  /\ CanRegister
  /\ IF method # "*" /\ ToUpper(method) \notin HTTPMETHOD
     THEN Fatal
     ELSE LET route == AddMethodRoute(method, pattern, f) IN
          /\ routers' = AddKeys(routers, Keys(route.methods), pattern, route)
          /\ registrations' = registrations + 1
          /\ UNCHANGED <<RouterCaseSensitive, enableFilter, filters, pc, url>>
  /\ UNCHANGED <<ctxVars, reqVars, settings, log>>

\* Handler: the pattern the route is added under
HandlerPattern(pattern, options) ==
  IF Len(options) > 0 /\ options[1] \in BOOLEAN THEN JoinAll(pattern) ELSE pattern

Handler(pattern, h, options) ==
  LET route == [pattern |-> pattern, controllerType |-> "nil", methods |-> {},
                handler |-> h, runFunction |-> "nil",
                routerType |-> routerTypeHandler]
  IN /\ CanRegister
     /\ routers' = AddEach(routers, HTTPMETHOD, HandlerPattern(pattern, options), route)
     /\ registrations' = registrations + 1
     /\ UNCHANGED <<RouterCaseSensitive, enableFilter, filters, pc, url>>
     /\ UNCHANGED <<ctxVars, reqVars, settings, log>>

\* InsertFilter: the FilterRouter it builds
NewFilterRouter(pattern, filter, params) ==
  [pattern |-> pattern,
   tree |-> IF ~RouterCaseSensitive THEN ToLower(pattern) ELSE pattern,
   filterFunc |-> filter,
   returnOnOutput |-> IF Len(params) = 0 THEN TRUE ELSE params[1]]

insertFilterRouter(fs, p, mr) ==
  IF p \in DOMAIN fs
  THEN [fs EXCEPT ![p] = Append(@, mr)]
  ELSE (p :> <<mr>>) @@ fs

InsertFilter(pattern, p, filter, params) ==
  /\ CanRegister
  /\ filters' = insertFilterRouter(filters, p, NewFilterRouter(pattern, filter, params))
  /\ enableFilter' = TRUE
  /\ registrations' = registrations + 1
  /\ UNCHANGED <<RouterCaseSensitive, routers, pc, url>>
  /\ UNCHANGED <<ctxVars, reqVars, settings, log>>

Register ==
  \/ \E pattern \in Patterns, c \in Controllers, m \in Mappings : Add(pattern, c, m)
  \/ \E method \in AddMethodVerbs, pattern \in Patterns : AddMethod(method, pattern, "runFunction")
  \/ \E pattern \in Patterns, o \in HandlerOptions : Handler(pattern, "handler", o)
  \/ \E pattern \in FilterPatterns, p \in BeforeStatic..FinishRouter, params \in FilterParams :
       InsertFilter(pattern, p, "filterFunc", params)

\* ------------------------------------------------------------------------
\* URLFor
\* ------------------------------------------------------------------------

urlPlaceholder == "{{placeholder}}"

\* reflect: path.Join(PkgPath(), Name()) of a controller type, by segment
ControllerPath(c) == IF c = "UserController" THEN <<"pkg", "UserController">> ELSE <<>>

\* strings.HasSuffix, on names that are whole segments
HasSuffix(name, suffix) ==
  /\ Len(suffix) <= Len(name)
  /\ SubSeq(name, Len(name) - Len(suffix) + 1, Len(name)) = suffix

\* strings.Replace(url, urlPlaceholder, v, 1) on the segments of url
RECURSIVE ReplaceFirst(_, _)
ReplaceFirst(u, v) ==
  IF u = <<>> THEN <<>>
  ELSE IF Head(u) = urlPlaceholder THEN <<v>> \o Tail(u)
  ELSE <<Head(u)>> \o ReplaceFirst(Tail(u), v)

\* strings.Replace(url, "/"+urlPlaceholder, "", 1)
RECURSIVE RemoveFirst(_)
RemoveFirst(u) ==
  IF u = <<>> THEN <<>>
  ELSE IF Head(u) = urlPlaceholder THEN Tail(u)
  ELSE <<Head(u)>> \o RemoveFirst(Tail(u))

\* delete(params, k)
Delete(m, k) == {e \in m : e[1] # k}

\* lines 443-453: the params map of the values, a later key over an earlier
RECURSIVE MakeParams(_, _)
MakeParams(params, values) ==
  IF Len(values) < 2 THEN params
  ELSE MakeParams(Put(params, values[1], values[2]), SubSeq(values, 3, Len(values)))

\* the name of an optional segment: the segment after its "?"
NameOf(seg) ==
  CASE seg = "?:a" -> ":a"
    [] seg = "?:b" -> ":b"
    [] OTHER -> seg

\* the trie: the names a leaf keeps of the wildcards of its pattern.  A named
\* segment is kept under the segment as it is written, colon included; an
\* optional segment is kept as the marker ":" followed by its name (the
\* marker lines 524-527 look for); the catch-all segments occur on Handler
\* routes only, which geturl passes by
RECURSIVE Wildcards(_)
Wildcards(pattern) ==
  IF pattern = <<>> THEN <<>>
  ELSE (CASE IsNamed(Head(pattern)) -> <<Head(pattern)>>
          [] IsOptional(Head(pattern)) -> <<":", NameOf(Head(pattern))>>
          [] OTHER -> <<>>)
       \o Wildcards(Tail(pattern))

\* the url geturl has joined when it stands at the node of a pattern: the
\* key of each fixrouters edge, urlPlaceholder for each wildcard edge
NodeURL(pattern) ==
  [i \in 1..Len(pattern) |->
     IF IsWildcard(pattern[i]) THEN urlPlaceholder ELSE pattern[i]]

\* the trie below the node that geturl has reached with u
IsBelow(pattern, u) ==
  Len(pattern) > Len(u) /\ SubSeq(NodeURL(pattern), 1, Len(u)) = u
\* t.fixrouters at that node: the keys
FixKeys(t, u) ==
  {t[i].pattern[Len(u) + 1] :
     i \in {j \in 1..Len(t) : /\ IsBelow(t[j].pattern, u)
                              /\ ~IsWildcard(t[j].pattern[Len(u) + 1])}}
\* t.wildcard # nil at that node
HasWildcardChild(t, u) ==
  \E i \in 1..Len(t) : IsBelow(t[i].pattern, u) /\ IsWildcard(t[i].pattern[Len(u) + 1])
\* t.leaves at that node, in registration order
LeavesAt(t, u) == SelectSeq(t, LAMBDA l : NodeURL(l.pattern) = u)

\* what one geturl call returns, with the params map as the call leaves it
Found(u, params) ==
  [ok |-> TRUE, url |-> [empty |-> FALSE, path |-> u, query |-> params],
   params |-> params]
NotFound(params) == [ok |-> FALSE, url |-> EmptyURL, params |-> params]

\* lines 484-500: does the leaf's controller run methodName
Find(c, methodName, httpMethod) ==
  \/ /\ ToUpper(methodName) \in HTTPMETHOD
     /\ \/ Cardinality(c.methods) = 0
        \/ /\ HasKey(c.methods, ToUpper(methodName))
           /\ Lookup(c.methods, ToUpper(methodName)) = ToUpper(methodName)
        \/ /\ HasKey(c.methods, "*")
           /\ Lookup(c.methods, "*") = methodName
  \/ \E e \in c.methods : (e[1] = "*" \/ e[1] = httpMethod) /\ e[2] = methodName

\* lines 522-539: the wildcards filled one by one, one missing parameter
\* passed over after each ":" marker
RECURSIVE FillEach(_, _, _, _)
FillEach(ws, u, params, canskip) ==
  IF ws = <<>> THEN Found(u, params)
  ELSE IF Head(ws) = ":" THEN FillEach(Tail(ws), u, params, TRUE)
  ELSE IF HasKey(params, Head(ws))
  THEN FillEach(Tail(ws), ReplaceFirst(u, Lookup(params, Head(ws))),
                Delete(params, Head(ws)), canskip)
  ELSE IF canskip THEN FillEach(Tail(ws), u, params, FALSE)
  ELSE NotFound(params)

\* a fill that leaves the parameter it has used in the params map
FillLeafKeepingParam(l, u, params) ==
  LET ws == Wildcards(l.pattern) IN
  IF Len(ws) = 0 THEN Found(RemoveFirst(u), params)
  ELSE IF HasKey(params, ws[1])
  THEN Found(ReplaceFirst(u, Lookup(params, ws[1])), params)
  ELSE NotFound(params)

\* lines 502-540 for a leaf without regexps (lines 513-521 are for the
\* leaves of *.* patterns, which the model does not register)
FillLeaf(l, u, params) ==
  LET ws == Wildcards(l.pattern) IN
  IF Len(ws) = 0 THEN Found(RemoveFirst(u), params)
  ELSE IF Len(ws) = 1
  THEN IF HasKey(params, ws[1])
       THEN Found(ReplaceFirst(u, Lookup(params, ws[1])), Delete(params, ws[1]))
       ELSE NotFound(params)
  ELSE FillEach(ws, u, params, FALSE)

\* lines 481-501: the leaf is of the controller and runs the method
MatchesLeaf(c, controllName, methodName, httpMethod) ==
  /\ c.routerType = routerTypeBeego
  /\ HasSuffix(ControllerPath(c.controllerType), controllName)
  /\ Find(c, methodName, httpMethod)

\* lines 480-573: the leaves of the node, the first match returns
RECURSIVE geturlLeaves(_, _, _, _, _, _)
geturlLeaves(ls, u, controllName, methodName, params, httpMethod) ==
  IF ls = <<>> THEN NotFound(params)
  ELSE IF MatchesLeaf(Head(ls).runObject, controllName, methodName, httpMethod)
  THEN FillLeaf(Head(ls), u, params)
  ELSE geturlLeaves(Tail(ls), u, controllName, methodName, params, httpMethod)

\* geturl: what the walk below the node of u may return.  The fixrouters
\* are a map, ranged over in any order; then the wildcard child; then the
\* leaves of the node
RECURSIVE geturl(_, _, _, _, _, _)
RECURSIVE geturlFix(_, _, _, _, _, _, _)
geturlFix(t, u, keys, controllName, methodName, params, httpMethod) ==
  IF keys = {} THEN {NotFound(params)}
  ELSE UNION {
         UNION {IF o.ok THEN {o}
                ELSE geturlFix(t, u, keys \ {k}, controllName, methodName,
                               o.params, httpMethod) :
                o \in geturl(t, Append(u, k), controllName, methodName, params,
                             httpMethod)} :
         k \in keys}

geturl(t, u, controllName, methodName, params, httpMethod) ==
  UNION {
    IF o1.ok THEN {o1}
    ELSE UNION {
           IF o2.ok THEN {o2}
           ELSE {geturlLeaves(LeavesAt(t, u), u, controllName, methodName,
                              o2.params, httpMethod)} :
           o2 \in IF HasWildcardChild(t, u)
                  THEN geturl(t, Append(u, urlPlaceholder), controllName,
                              methodName, o1.params, httpMethod)
                  ELSE {NotFound(o1.params)}} :
    o1 \in geturlFix(t, u, FixKeys(t, u), controllName, methodName, params,
                     httpMethod)}

\* lines 456-462: the tries are ranged over in any order and the first URL
\* is returned.  A trie whose walk fails and deletes nothing has no effect
\* wherever it stands in the order, so the order is chosen among the others
RECURSIVE URLForTries(_, _, _, _)
URLForTries(todo, controllName, methodName, params) ==
  LET outs(m) == geturl(routers[m], <<>>, controllName, methodName, params, m)
      acting == {m \in todo : \E o \in outs(m) : o.ok \/ o.params # params}
  IN IF acting = {} THEN {EmptyURL}
     ELSE UNION {
            UNION {IF o.ok THEN {o.url}
                   ELSE URLForTries(todo \ {m}, controllName, methodName, o.params) :
                   o \in outs(m)} :
            m \in acting}

\* lines 433-463: the strings URLFor may return
URLForReturns(endpoint, values) ==
  IF Len(endpoint) <= 1 THEN {EmptyURL}
  ELSE IF Len(values) % 2 # 0 THEN {EmptyURL}
  ELSE URLForTries(DOMAIN routers, SubSeq(endpoint, 1, Len(endpoint) - 1),
                   endpoint[Len(endpoint)], MakeParams({}, values))

\* URLFor is called, by a handler or a template of a request under way or
\* by anyone else
URLFor(endpoint, values) ==
  /\ pc # "fatal"
  /\ \E u \in URLForReturns(endpoint, values) :
       url' = [endpoint |-> endpoint, values |-> values, result |-> u]
  /\ UNCHANGED <<RouterCaseSensitive, routers, enableFilter, filters, registrations>>
  /\ UNCHANGED <<pc, ctxVars, reqVars, settings, log>>

\* ------------------------------------------------------------------------
\* The request: events, the response writer, callbacks
\* ------------------------------------------------------------------------

Ev(name) == [ev |-> name, pos |-> 0, idx |-> 0, arg |-> ""]
EvArg(name, arg) == [ev |-> name, pos |-> 0, idx |-> 0, arg |-> arg]
\* the callback of filter i of position p ran
FilterEv(p, i) == [ev |-> "filterFunc", pos |-> p, idx |-> i, arg |-> ""]
\* doFilter(p) returned: true at filter i, or false (i = 0)
DoFilterEv(p, i, stop) ==
  [ev |-> "doFilter", pos |-> p, idx |-> i, arg |-> IF stop THEN "true" ELSE "false"]

\* what a callback that is given the context does to it before it returns:
\* nothing, ResponseWriter.Write, Output.Status = 201, both, or (a filter)
\* Input.RunController and Input.RunMethod set
Effects == {"none", "write", "status", "both"}
FilterEffects(p) == IF p <= BeforeRouter THEN Effects \cup {"setRun"} ELSE Effects
\* what the http.Handler of a Handler route does with the writer it is given
HandlerEffects == {"none", "write"}
\* the values user code panics with
PanicValues == {ErrAbort, "404"}
\* the keys ErrorMaps may hold
ErrorCodes == {"404", "User stop run"}

\* responseWriter.Write and the fields a callback sets
Callback(e) ==
  /\ started' = (started \/ e \in {"write", "both"})
  /\ rwHeader' = IF e \in {"write", "both"} /\ rwHeader = 0 THEN 200 ELSE rwHeader
  /\ OutputStatus' = IF e \in {"status", "both"} THEN 201 ELSE OutputStatus
  /\ RunController' = IF e = "setRun" THEN "UserController" ELSE RunController
  /\ RunMethod' = IF e = "setRun" THEN "List" ELSE RunMethod
  /\ UNCHANGED status

\* responseWriter.WriteHeader
WriteHeader(code) ==
  /\ started' = TRUE
  /\ status' = code
  /\ rwHeader' = IF rwHeader = 0 THEN code ELSE rwHeader

\* strconv.Atoi of an exception code, 503 when it is no number
ExceptionCode(errcode) ==
  CASE errcode = "404" -> 404
    [] errcode = "405" -> 405
    [] OTHER -> 503

\* exception(errcode, context): the error page of that code is written
exception(errcode) ==
  /\ WriteHeader(ExceptionCode(errcode))
  /\ UNCHANGED <<OutputStatus, RunController, RunMethod>>

\* panic(v): the function is left and its deferred calls run
Panic(v) ==
  /\ pc' = "defer"
  /\ err' = v

\* ------------------------------------------------------------------------
\* ServeHTTP
\* ------------------------------------------------------------------------

\* the call of doFilter(p)
CallFilter(p) ==
  /\ pc' = "doFilter"
  /\ pos' = p
  /\ idx' = 1

\* a ServeHTTP without the check of line 635
SupportedWhateverTheVerb(method) == TRUE

\* line 635: the verb is one of HTTPMETHOD
Supported(method) == method \in HTTPMETHOD

\* lines 577-638: a request arrives
ServeHTTP(request) ==
  /\ pc \in {"idle", "done", "crashed"}
  /\ r' = request
  /\ urlPath' = IF ~RouterCaseSensitive THEN ToLower(request.Path) ELSE request.Path
  /\ OutputStatus' = 0
  /\ RunController' = "nil"
  /\ RunMethod' = ""
  /\ CruSession' = "nil"
  /\ findrouter' = FALSE
  /\ runrouter' = "nil"
  /\ runMethod' = ""
  /\ routerInfo' = NoRoute
  /\ defers' = <<"recoverPanic">>
  /\ err' = "nil"
  /\ settings' = {}
  /\ IF ~Supported(request.Method)
     THEN /\ started' = TRUE
          /\ status' = 405
          /\ rwHeader' = 405
          /\ log' = <<EvArg("http.Error", "405")>>
          /\ pc' = "Admin"
          /\ pos' = BeforeStatic
          /\ idx' = 0
     ELSE /\ started' = FALSE
          /\ status' = 0
          /\ rwHeader' = 0
          /\ log' = <<>>
          /\ CallFilter(BeforeStatic)
  /\ UNCHANGED regVars

\* a ServeHTTP that calls doFilter(p) before the handler without looking at
\* what it returns
AfterFilterIgnoringStop(p, stop) ==
  CASE p = BeforeStatic -> "static"
    [] p = BeforeRouter -> "findrouter"
    [] p = BeforeExec -> "exec"
    [] p = AfterExec -> IF stop THEN "Admin" ELSE "finish"
    [] OTHER -> "Admin"

\* a ServeHTTP that calls doFilter(FinishRouter) whatever doFilter(AfterExec)
\* has returned
AfterFilterFinishAlways(p, stop) ==
  CASE p = BeforeStatic -> IF stop THEN "Admin" ELSE "static"
    [] p = BeforeRouter -> IF stop THEN "Admin" ELSE "findrouter"
    [] p = BeforeExec -> IF stop THEN "Admin" ELSE "exec"
    [] p = AfterExec -> "finish"
    [] OTHER -> "Admin"

\* where ServeHTTP goes on when doFilter(p) has returned stop
AfterFilter(p, stop) ==
  CASE p = BeforeStatic -> IF stop THEN "Admin" ELSE "static"
    [] p = BeforeRouter -> IF stop THEN "Admin" ELSE "findrouter"
    [] p = BeforeExec -> IF stop THEN "Admin" ELSE "exec"
    [] p = AfterExec -> IF stop THEN "Admin" ELSE "finish"
    [] OTHER -> "Admin"

\* the filters doFilter(p) ranges over
FilterList(p) ==
  IF enableFilter /\ p \in DOMAIN filters THEN filters[p] ELSE <<>>

\* a doFilter that returns once the response has started, whatever the
\* filter was inserted with
HaltsWhateverTheFlag(filterR, isStarted) == isStarted

\* lines 613 and 625: the filter ends the point once the response has started
Halts(filterR, isStarted) == filterR.returnOnOutput /\ isStarted

\* doFilter returns to ServeHTTP, having made the calls in events
FilterReturn(events, i, stop) ==
  /\ log' = log \o events \o <<DoFilterEv(pos, i, stop)>>
  /\ IF AfterFilter(pos, stop) = "finish"
     THEN CallFilter(FinishRouter)
     ELSE /\ pc' = AfterFilter(pos, stop)
          /\ UNCHANGED <<pos, idx>>

\* lines 610-631, the loop is over: return false
DoFilterEnd ==
  /\ pc = "doFilter"
  /\ idx > Len(FilterList(pos))
  /\ FilterReturn(<<>>, 0, FALSE)
  /\ UNCHANGED <<regVars, ctxVars, r, urlPath, CruSession, findrouter, runrouter,
                 runMethod, routerInfo, defers, err, settings>>

\* lines 612-628, one turn of the loop that returns true before the callback
DoFilterHalt ==
  /\ pc = "doFilter"
  /\ idx <= Len(FilterList(pos))
  /\ Halts(FilterList(pos)[idx], started)
  /\ FilterReturn(<<>>, idx, TRUE)
  /\ UNCHANGED <<regVars, ctxVars, r, urlPath, CruSession, findrouter, runrouter,
                 runMethod, routerInfo, defers, err, settings>>

\* lines 612-628, one turn of the loop with the callback returning
DoFilterStep(e) ==
  /\ pc = "doFilter"
  /\ idx <= Len(FilterList(pos))
  /\ LET filterR == FilterList(pos)[idx] IN
     /\ ~Halts(filterR, started)
     /\ IF ValidRouter(filterR, urlPath)
        THEN /\ Callback(e)
             /\ IF Halts(filterR, started')
                THEN FilterReturn(<<FilterEv(pos, idx)>>, idx, TRUE)
                ELSE log' = Append(log, FilterEv(pos, idx))
                     /\ idx' = idx + 1
                     /\ UNCHANGED <<pc, pos>>
        ELSE /\ e = "none"
             /\ idx' = idx + 1
             /\ UNCHANGED <<ctxVars, log, pc, pos>>
  /\ UNCHANGED <<regVars, r, urlPath, CruSession, findrouter, runrouter,
                 runMethod, routerInfo, defers, err, settings>>

\* lines 612-623, the callback of the filter panics
DoFilterPanic(v) ==
  /\ pc = "doFilter"
  /\ idx <= Len(FilterList(pos))
  /\ LET filterR == FilterList(pos)[idx] IN
     /\ ~Halts(filterR, started)
     /\ ValidRouter(filterR, urlPath)
  /\ log' = Append(log, FilterEv(pos, idx))
  /\ Panic(v)
  /\ UNCHANGED <<regVars, ctxVars, r, urlPath, CruSession, findrouter, runrouter,
                 runMethod, routerInfo, pos, idx, defers, settings>>

\* a recoverPanic that does not look at RecoverPanic
recoverPanicAlways(e, RecoverPanic, EnableErrorsShow, registered, dev) ==
  IF e = "nil" THEN "return"
  ELSE IF e = ErrAbort THEN "abort"
  ELSE IF EnableErrorsShow /\ registered THEN "exception"
  ELSE IF dev THEN "showErr"
  ELSE "Critical"

\* a recoverPanic that looks for the abort value only when RecoverPanic is on
recoverPanicAbortLate(e, RecoverPanic, EnableErrorsShow, registered, dev) ==
  IF e = "nil" THEN "return"
  ELSE IF ~RecoverPanic THEN "panic"
  ELSE IF e = ErrAbort THEN "abort"
  ELSE IF EnableErrorsShow /\ registered THEN "exception"
  ELSE IF dev THEN "showErr"
  ELSE "Critical"

\* lines 863-893: what recoverPanic does about the panic value e under the
\* settings it reads
recoverPanic(e, RecoverPanic, EnableErrorsShow, registered, dev) ==
  IF e = "nil" THEN "return"
  ELSE IF e = ErrAbort THEN "abort"
  ELSE IF ~RecoverPanic THEN "panic"
  ELSE IF EnableErrorsShow /\ registered THEN "exception"
  ELSE IF dev THEN "showErr"
  ELSE "Critical"

\* the settings recoverPanic reads on its way to that outcome
RecoverReads(e, RecoverPanic, EnableErrorsShow, registered, dev) ==
  IF e = "nil" \/ e = ErrAbort THEN {}
  ELSE {<<"RecoverPanic", B(RecoverPanic)>>}
       \cup (IF RecoverPanic THEN {<<"EnableErrorsShow", B(EnableErrorsShow)>>} ELSE {})
       \cup (IF RecoverPanic /\ EnableErrorsShow
             THEN {<<"ErrorMaps", B(registered)>>} ELSE {})
       \cup (IF RecoverPanic /\ ~(EnableErrorsShow /\ registered)
             THEN {<<"RunMode", IF dev THEN "dev" ELSE "prod">>} ELSE {})

\* the calls recoverPanic makes
RecoverEvents(e, outcome) ==
  CASE outcome = "return" -> <<>>
    [] outcome = "abort" -> <<Ev("recover")>>
    [] outcome = "panic" -> <<Ev("recover"), Ev("panic")>>
    [] outcome = "exception" -> <<Ev("recover"), EvArg("exception", Sprint(e))>>
    [] outcome = "showErr" -> <<Ev("recover"), Ev("Critical"), Ev("showErr")>>
    [] OTHER -> <<Ev("recover"), Ev("Critical")>>

\* deferred calls that run in the order they were deferred in
RunDefersFirstFirst(ds, e, outcome) ==
  RecoverEvents(e, outcome)
  \o (IF \E i \in 1..Len(ds) : ds[i] = "SessionRelease"
      THEN <<Ev("SessionRelease")>> ELSE <<>>)

\* the deferred calls in the order they run (last deferred first) and the
\* calls they make
RECURSIVE RunDefers(_, _, _)
RunDefers(ds, e, outcome) ==
  IF ds = <<>> THEN <<>>
  ELSE (IF Head(ds) = "SessionRelease"
        THEN <<Ev("SessionRelease")>>
        ELSE RecoverEvents(e, outcome))
       \o RunDefers(Tail(ds), e, outcome)

\* ServeHTTP returns: its deferred calls run and find no panic
Return(events) ==
  /\ log' = log \o events \o RunDefers(defers, "nil", "return")
  /\ defers' = <<>>
  /\ pc' = "done"

\* lines 645-649: the static file server is asked first
ServeStatic(wrote) ==
  /\ pc = "static"
  /\ log' = Append(log, Ev("serverStaticRouter"))
  /\ Callback(IF wrote THEN "write" ELSE "none")
  /\ IF started'
     THEN findrouter' = TRUE /\ pc' = "Admin"
     ELSE pc' = "session" /\ UNCHANGED findrouter
  /\ UNCHANGED <<regVars, r, urlPath, CruSession, runrouter, runMethod, routerInfo,
                 pos, idx, defers, err, settings>>

\* lines 665-670: the body and the form of a request that may carry one
ParseEvents(request) ==
  IF request.Method # "GET" /\ request.Method # "HEAD"
  THEN <<Ev("ParseFormOrMulitForm")>> ELSE <<>>

\* a session failure that goes to Admin where the code returns
SessionFailToAdmin ==
  /\ pc = "session"
  /\ settings' = Put(settings, "SessionOn", B(TRUE))
  /\ log' = log \o <<EvArg("SessionStart", "err"), EvArg("exception", "503")>>
  /\ exception("503")
  /\ pc' = "Admin"
  /\ UNCHANGED <<regVars, r, urlPath, CruSession, findrouter, runrouter, runMethod,
                 routerInfo, pos, idx, defers, err>>

\* lines 651-670 with the session store failing: 503, and ServeHTTP returns
SessionFail ==
  /\ pc = "session"
  /\ settings' = Put(settings, "SessionOn", B(TRUE))
  /\ Return(<<EvArg("SessionStart", "err"), EvArg("exception", "503")>>)
  /\ exception("503")
  /\ UNCHANGED <<regVars, r, urlPath, CruSession, findrouter, runrouter, runMethod,
                 routerInfo, pos, idx, err>>

\* lines 651-670: the session is started when sessions are on, its release
\* deferred, the form parsed, and the before-router filters are called
SessionInit(SessionOn) ==
  /\ pc = "session"
  /\ settings' = Put(settings, "SessionOn", B(SessionOn))
  /\ IF SessionOn
     THEN /\ CruSession' = "session"
          /\ defers' = <<"SessionRelease">> \o defers
          /\ log' = Append(log, EvArg("SessionStart", "ok")) \o ParseEvents(r)
     ELSE /\ log' = log \o ParseEvents(r)
          /\ UNCHANGED <<CruSession, defers>>
  /\ CallFilter(BeforeRouter)
  /\ UNCHANGED <<regVars, ctxVars, r, urlPath, findrouter, runrouter, runMethod,
                 routerInfo, err>>

\* lines 683-691 and 738-744: POST with _method=PUT or DELETE counts as that verb
Override(request) ==
  IF request.Method = "POST" /\ request._method \in {"PUT", "DELETE"}
  THEN request._method ELSE request.Method

\* a lookup that takes the route from the trie of any verb that holds one
LookupAnyVerb(httpMethod, path) ==
  IF \E m \in DOMAIN routers : MatchLeaf(routers[m], path) # 0
  THEN LET m == CHOOSE m \in DOMAIN routers : MatchLeaf(routers[m], path) # 0
       IN routers[m][MatchLeaf(routers[m], path)].runObject
  ELSE NoRoute

\* lines 693-708: the route the trie of that verb holds for the path, or none
LookupRoute(httpMethod, path) ==
  IF httpMethod \in DOMAIN routers /\ MatchLeaf(routers[httpMethod], path) # 0
  THEN routers[httpMethod][MatchLeaf(routers[httpMethod], path)].runObject
  ELSE NoRoute

\* a ServeHTTP that does not look at what the filters have named
PreResolvedNever == FALSE

\* line 676: a filter has named the controller and the method to run
PreResolved == RunController # "nil" /\ RunMethod # ""

\* lines 676-716: the handler is taken from the context or looked up; 404 on a miss
FindRouter ==
  /\ pc = "findrouter"
  /\ IF PreResolved
     THEN /\ findrouter' = TRUE
          /\ runMethod' = RunMethod
          /\ runrouter' = RunController
          /\ UNCHANGED <<routerInfo, log, ctxVars>>
          /\ CallFilter(BeforeExec)
     ELSE LET httpMethod == Override(r)
              route == LookupRoute(httpMethod, urlPath)
              looked == IF httpMethod \in DOMAIN routers
                        THEN <<EvArg("Tree.Match", httpMethod)>> ELSE <<>>
          IN /\ routerInfo' = route
             /\ findrouter' = (route # NoRoute)
             /\ UNCHANGED <<runMethod, runrouter>>
             /\ IF route = NoRoute
                THEN /\ log' = log \o looked \o <<EvArg("exception", "404")>>
                     /\ exception("404")
                     /\ pc' = "Admin"
                     /\ UNCHANGED <<pos, idx>>
                ELSE /\ log' = log \o looked
                     /\ UNCHANGED ctxVars
                     /\ CallFilter(BeforeExec)
  /\ UNCHANGED <<regVars, r, urlPath, CruSession, defers, err, settings>>

IsRESTFul == routerInfo # NoRoute /\ routerInfo.routerType = routerTypeRESTFul
IsHandler == routerInfo # NoRoute /\ routerInfo.routerType = routerTypeHandler
\* a test of the verb the lookup was made with, not of the verb of the request
AcceptsLookedUp(route, method) == HasKey(route.methods, Override(r))

\* lines 725-732: a function route runs its function when the route accepts
\* the verb of the request
Accepts(route, method) == HasKey(route.methods, method)

\* a function route that leaves isRunable false: the controller lifecycle
\* follows the function
ExecFunctionNotRunable(e) ==
  /\ pc = "exec"
  /\ IsRESTFul /\ Accepts(routerInfo, r.Method)
  /\ log' = Append(log, Ev("runFunction"))
  /\ Callback(e)
  /\ pc' = "Prepare"
  /\ UNCHANGED <<regVars, r, urlPath, CruSession, findrouter, runrouter, runMethod,
                 routerInfo, pos, idx, defers, err, settings>>

ExecFunction(e) ==
  /\ pc = "exec"
  /\ IsRESTFul /\ Accepts(routerInfo, r.Method)
  /\ log' = Append(log, Ev("runFunction"))
  /\ Callback(e)
  /\ CallFilter(AfterExec)
  /\ UNCHANGED <<regVars, r, urlPath, CruSession, findrouter, runrouter, runMethod,
                 routerInfo, defers, err, settings>>

ExecFunctionPanic(v) ==
  /\ pc = "exec"
  /\ IsRESTFul /\ Accepts(routerInfo, r.Method)
  /\ log' = Append(log, Ev("runFunction"))
  /\ Panic(v)
  /\ UNCHANGED <<regVars, ctxVars, r, urlPath, CruSession, findrouter, runrouter,
                 runMethod, routerInfo, pos, idx, defers, settings>>

\* lines 729-731: the route does not accept the verb: 405
ExecNotAllowed ==
  /\ pc = "exec"
  /\ IsRESTFul /\ ~Accepts(routerInfo, r.Method)
  /\ log' = Append(log, EvArg("exception", "405"))
  /\ exception("405")
  /\ pc' = "Admin"
  /\ UNCHANGED <<regVars, r, urlPath, CruSession, findrouter, runrouter, runMethod,
                 routerInfo, pos, idx, defers, err, settings>>

\* lines 733-735: a Handler route is given the writer ServeHTTP was called with
ExecHandler(e) ==
  /\ pc = "exec"
  /\ IsHandler
  /\ log' = Append(log, Ev("handler.ServeHTTP"))
  /\ rwHeader' = IF e = "write" /\ rwHeader = 0 THEN 200 ELSE rwHeader
  /\ CallFilter(AfterExec)
  /\ UNCHANGED <<regVars, started, status, OutputStatus, RunController, RunMethod,
                 r, urlPath, CruSession, findrouter, runrouter, runMethod,
                 routerInfo, defers, err, settings>>

ExecHandlerPanic(v) ==
  /\ pc = "exec"
  /\ IsHandler
  /\ log' = Append(log, Ev("handler.ServeHTTP"))
  /\ Panic(v)
  /\ UNCHANGED <<regVars, ctxVars, r, urlPath, CruSession, findrouter, runrouter,
                 runMethod, routerInfo, pos, idx, defers, settings>>

\* a resolution that asks for the "*" entry before the entry of the verb
ResolveMethodStarFirst(methods, method) ==
  IF HasKey(methods, "*") THEN Lookup(methods, "*")
  ELSE IF HasKey(methods, method) THEN Lookup(methods, method)
  ELSE method

\* lines 745-751: the method of the controller the verb is mapped to
ResolveMethod(methods, method) ==
  IF HasKey(methods, method) THEN Lookup(methods, method)
  ELSE IF HasKey(methods, "*") THEN Lookup(methods, "*")
  ELSE method

\* lines 736-756: a controller route, or the controller a filter has named
ExecController ==
  /\ pc = "exec"
  /\ ~IsRESTFul /\ ~IsHandler
  /\ IF routerInfo # NoRoute
     THEN /\ runrouter' = routerInfo.controllerType
          /\ runMethod' = ResolveMethod(routerInfo.methods, Override(r))
     ELSE UNCHANGED <<runrouter, runMethod>>
  /\ pc' = "Prepare"
  /\ UNCHANGED <<regVars, ctxVars, r, urlPath, CruSession, findrouter, routerInfo,
                 pos, idx, defers, err, settings, log>>

\* lines 757-768: a fresh controller, its Init, its Prepare
CtrlPrepare(e) ==
  /\ pc = "Prepare"
  /\ log' = log \o <<EvArg("Init", runMethod), Ev("Prepare")>>
  /\ Callback(e)
  /\ pc' = "XSRF"
  /\ UNCHANGED <<regVars, r, urlPath, CruSession, findrouter, runrouter, runMethod,
                 routerInfo, pos, idx, defers, err, settings>>

CtrlPreparePanic(v) ==
  /\ pc = "Prepare"
  /\ log' = log \o <<EvArg("Init", runMethod), Ev("Prepare")>>
  /\ Panic(v)
  /\ UNCHANGED <<regVars, ctxVars, r, urlPath, CruSession, findrouter, runrouter,
                 runMethod, routerInfo, pos, idx, defers, settings>>

\* lines 773-774: the verbs whose requests must carry the XSRF cookie
ChecksXSRF(request) ==
  \/ request.Method \in {"POST", "DELETE", "PUT"}
  \/ (request.Method = "POST" /\ request._method \in {"DELETE", "PUT"})

\* lines 770-779: the XSRF token and its check when XSRF is on, then URLMapping
CtrlXSRF(EnableXSRF) ==
  /\ pc = "XSRF"
  /\ settings' = Put(settings, "EnableXSRF", B(EnableXSRF))
  /\ log' = log
            \o (IF EnableXSRF THEN <<Ev("XSRFToken")>> ELSE <<>>)
            \o (IF EnableXSRF /\ ChecksXSRF(r) THEN <<Ev("CheckXSRFCookie")>> ELSE <<>>)
            \o <<Ev("URLMapping")>>
  /\ pc' = "Method"
  /\ UNCHANGED <<regVars, ctxVars, r, urlPath, CruSession, findrouter, runrouter,
                 runMethod, routerInfo, pos, idx, defers, err>>

\* lines 771-776: the XSRF check fails and aborts the request
CtrlXSRFPanic(v) ==
  /\ pc = "XSRF"
  /\ ChecksXSRF(r)
  /\ settings' = Put(settings, "EnableXSRF", B(TRUE))
  /\ log' = log \o <<Ev("XSRFToken"), Ev("CheckXSRFCookie")>>
  /\ Panic(v)
  /\ UNCHANGED <<regVars, ctxVars, r, urlPath, CruSession, findrouter, runrouter,
                 runMethod, routerInfo, pos, idx, defers>>

\* lines 783-804: the method of the controller that runMethod selects
MethodCalled(name) ==
  CASE name = "GET" -> "Get"
    [] name = "POST" -> "Post"
    [] name = "DELETE" -> "Delete"
    [] name = "PUT" -> "Put"
    [] name = "HEAD" -> "Head"
    [] name = "PATCH" -> "Patch"
    [] name = "OPTIONS" -> "Options"
    [] OTHER -> name

\* lines 781-804: the main logic, unless the response has started
CtrlMethod(e) ==
  /\ pc = "Method"
  /\ IF started
     THEN /\ e = "none"
          /\ pc' = "Finish"
          /\ UNCHANGED <<ctxVars, log, err>>
     ELSE IF MethodCalled(runMethod) \in ControllerMethods(runrouter)
     THEN /\ log' = Append(log, EvArg("Method", MethodCalled(runMethod)))
          /\ Callback(e)
          /\ pc' = "Render"
          /\ UNCHANGED err
     ELSE /\ e = "none"
          /\ log' = Append(log, EvArg("HandlerFunc", runMethod))
          /\ Panic("reflect: call of reflect.Value.Call on zero Value")
          /\ UNCHANGED ctxVars
  /\ UNCHANGED <<regVars, r, urlPath, CruSession, findrouter, runrouter, runMethod,
                 routerInfo, pos, idx, defers, settings>>

CtrlMethodPanic(v) ==
  /\ pc = "Method"
  /\ ~started
  /\ MethodCalled(runMethod) \in ControllerMethods(runrouter)
  /\ log' = Append(log, EvArg("Method", MethodCalled(runMethod)))
  /\ Panic(v)
  /\ UNCHANGED <<regVars, ctxVars, r, urlPath, CruSession, findrouter, runrouter,
                 runMethod, routerInfo, pos, idx, defers, settings>>

\* a test of line 807 that does not look at context.Output.Status
MayRenderWhateverStatus == ~started

\* line 807: the template is rendered only for a response not yet started
\* and without a status
MayRender == ~started /\ OutputStatus = 0

\* lines 806-813: Render writes the page when AutoRender is on
CtrlRender(AutoRender) ==
  /\ pc = "Render"
  /\ IF MayRender
     THEN /\ settings' = Put(settings, "AutoRender", B(AutoRender))
          /\ IF AutoRender
             THEN log' = Append(log, Ev("Render")) /\ Callback("write")
             ELSE UNCHANGED <<log, ctxVars>>
     ELSE /\ AutoRender = FALSE
          /\ UNCHANGED <<settings, log, ctxVars>>
  /\ pc' = "Finish"
  /\ UNCHANGED <<regVars, r, urlPath, CruSession, findrouter, runrouter, runMethod,
                 routerInfo, pos, idx, defers, err>>

\* lines 809-811: Render fails: panic(err)
CtrlRenderPanic(v) ==
  /\ pc = "Render"
  /\ MayRender
  /\ settings' = Put(settings, "AutoRender", B(TRUE))
  /\ log' = Append(log, Ev("Render"))
  /\ Panic(v)
  /\ UNCHANGED <<regVars, ctxVars, r, urlPath, CruSession, findrouter, runrouter,
                 runMethod, routerInfo, pos, idx, defers>>

\* lines 816-823: Finish, and the after-exec filters are called
CtrlFinish ==
  /\ pc = "Finish"
  /\ log' = Append(log, Ev("Finish"))
  /\ CallFilter(AfterExec)
  /\ UNCHANGED <<regVars, ctxVars, r, urlPath, CruSession, findrouter, runrouter,
                 runMethod, routerInfo, defers, err, settings>>

\* line 858: the status is written through when one is set
WritesStatus == OutputStatus # 0

\* lines 828-861: the Admin label.  The statistics and the access log line
\* go to the toolbox and the logger; the status goes to the underlying
\* writer; then ServeHTTP returns
Admin ==
  /\ pc = "Admin"
  /\ IF WritesStatus
     THEN /\ Return(<<Ev("Admin"),
                      EvArg("writer.WriteHeader",
                            IF rwHeader = 0 THEN "first" ELSE "again")>>)
          /\ rwHeader' = IF rwHeader = 0 THEN OutputStatus ELSE rwHeader
     ELSE /\ Return(<<Ev("Admin")>>)
          /\ UNCHANGED rwHeader
  /\ UNCHANGED <<regVars, started, status, OutputStatus, RunController, RunMethod,
                 r, urlPath, CruSession, findrouter, runrouter, runMethod,
                 routerInfo, pos, idx, err, settings>>

\* a recovery that switches the filters off for the requests to come
UnwindFiltersOff(RecoverPanic, EnableErrorsShow, registered, dev) ==
  LET outcome == recoverPanic(err, RecoverPanic, EnableErrorsShow, registered, dev)
      reads == RecoverReads(err, RecoverPanic, EnableErrorsShow, registered, dev)
  IN /\ pc = "defer"
     /\ HasKey(reads, "RecoverPanic") \/ ~RecoverPanic
     /\ HasKey(reads, "EnableErrorsShow") \/ ~EnableErrorsShow
     /\ HasKey(reads, "ErrorMaps") \/ ~registered
     /\ HasKey(reads, "RunMode") \/ ~dev
     /\ registered => Sprint(err) \in ErrorCodes
     /\ settings' = settings \cup reads
     /\ log' = log \o RunDefers(defers, err, outcome)
     /\ defers' = <<>>
     /\ IF outcome = "exception" THEN exception(Sprint(err))
        ELSE IF outcome = "showErr" THEN Callback("write")
        ELSE UNCHANGED ctxVars
     /\ pc' = IF outcome = "panic" THEN "crashed" ELSE "done"
     /\ enableFilter' = FALSE
     /\ UNCHANGED <<RouterCaseSensitive, routers, filters, registrations, url>>
     /\ UNCHANGED <<err, r, urlPath, CruSession, findrouter, runrouter,
                    runMethod, routerInfo, pos, idx>>

\* ServeHTTP is left by a panic: lines 600, 660-662 and 863-893
Unwind(RecoverPanic, EnableErrorsShow, registered, dev) ==
  LET outcome == recoverPanic(err, RecoverPanic, EnableErrorsShow, registered, dev)
      reads == RecoverReads(err, RecoverPanic, EnableErrorsShow, registered, dev)
  IN /\ pc = "defer"
     \* a setting that is not read is not chosen
     /\ HasKey(reads, "RecoverPanic") \/ ~RecoverPanic
     /\ HasKey(reads, "EnableErrorsShow") \/ ~EnableErrorsShow
     /\ HasKey(reads, "ErrorMaps") \/ ~registered
     /\ HasKey(reads, "RunMode") \/ ~dev
     /\ registered => Sprint(err) \in ErrorCodes
     /\ settings' = settings \cup reads
     /\ log' = log \o RunDefers(defers, err, outcome)
     /\ defers' = <<>>
     /\ IF outcome = "exception" THEN exception(Sprint(err))
        ELSE IF outcome = "showErr" THEN Callback("write")
        ELSE UNCHANGED ctxVars
     /\ pc' = IF outcome = "panic" THEN "crashed" ELSE "done"
     /\ UNCHANGED <<regVars, err, r, urlPath, CruSession, findrouter, runrouter,
                    runMethod, routerInfo, pos, idx>>

\* the steps of a request under way
ServeSteps ==
  \/ DoFilterEnd
  \/ DoFilterHalt
  \/ \E e \in Effects \cup {"setRun"} : e \in FilterEffects(pos) /\ DoFilterStep(e)
  \/ \E v \in PanicValues : DoFilterPanic(v)
  \/ \E wrote \in BOOLEAN : ServeStatic(wrote)
  \/ SessionFail
  \/ \E SessionOn \in BOOLEAN : SessionInit(SessionOn)
  \/ FindRouter
  \/ \E e \in Effects : ExecFunction(e)
  \/ \E v \in PanicValues : ExecFunctionPanic(v)
  \/ ExecNotAllowed
  \/ \E e \in HandlerEffects : ExecHandler(e)
  \/ \E v \in PanicValues : ExecHandlerPanic(v)
  \/ ExecController
  \/ \E e \in Effects : CtrlPrepare(e)
  \/ \E v \in PanicValues : CtrlPreparePanic(v)
  \/ \E EnableXSRF \in BOOLEAN : CtrlXSRF(EnableXSRF)
  \/ \E v \in PanicValues : CtrlXSRFPanic(v)
  \/ \E e \in Effects : CtrlMethod(e)
  \/ \E v \in PanicValues : CtrlMethodPanic(v)
  \/ \E AutoRender \in BOOLEAN : CtrlRender(AutoRender)
  \/ \E v \in PanicValues : CtrlRenderPanic(v)
  \/ CtrlFinish
  \/ Admin
  \/ \E RecoverPanic \in BOOLEAN, EnableErrorsShow \in BOOLEAN,
        registered \in BOOLEAN, dev \in BOOLEAN :
       Unwind(RecoverPanic, EnableErrorsShow, registered, dev)

Serve ==
  \/ \E request \in Requests : ServeHTTP(request)
  \/ ServeSteps

Next == Register \/ Serve

Spec == Init /\ [][Next]_vars

\* ------------------------------------------------------------------------
\* Registration and URLFor
\* ------------------------------------------------------------------------

URLPatterns == {<<"User", ":id">>, <<"user">>}
\* absent, "get:Get" and "*:List"
URLMappings ==
  { <<>>,
    << << << <<"get">>, "Get" >> >> >>,
    << << << <<"*">>, "List" >> >> >> }
\* "pkg.UserController.Get" and "UserController.List"
Endpoints == {<<"pkg", "UserController", "Get">>, <<"UserController", "List">>}
URLValues == {<<>>, <<":id", "7">>, <<"id", "7">>}

RegisterURL ==
  \/ \E pattern \in URLPatterns, c \in Controllers, m \in URLMappings : Add(pattern, c, m)
  \/ \E pattern \in URLPatterns : AddMethod("put", pattern, "runFunction")
  \/ \E pattern \in URLPatterns : Handler(pattern, "handler", <<>>)

URLForCalls == \E endpoint \in Endpoints, values \in URLValues : URLFor(endpoint, values)

NextURL == RegisterURL \/ URLForCalls

SpecURL == Init /\ [][NextURL]_vars

\* ------------------------------------------------------------------------
\* Registration of patterns of several wildcards, and URLFor
\* ------------------------------------------------------------------------

\* /:a/:b, /?:a/:b, /:a/?:b, /?:a/?:b and /user
FillPatterns ==
  {<<":a", ":b">>, <<"?:a", ":b">>, <<":a", "?:b">>, <<"?:a", "?:b">>, <<"user">>}
\* absent, "get:Get" and "post:Get"
FillMappings ==
  { <<>>,
    << << << <<"get">>, "Get" >> >> >>,
    << << << <<"post">>, "Get" >> >> >> }
\* no parameter, :a, :b, both
FillValues == {<<>>, <<":a", "1">>, <<":b", "2">>, <<":a", "1", ":b", "2">>}
\* "pkg.UserController.Get"
FillEndpoint == <<"pkg", "UserController", "Get">>

RegisterFill ==
  \E pattern \in FillPatterns, m \in FillMappings : Add(pattern, "UserController", m)

URLForFill == \E values \in FillValues : URLFor(FillEndpoint, values)

NextFill == RegisterFill \/ URLForFill

SpecFill == Init /\ [][NextFill]_vars

\* ------------------------------------------------------------------------
\* Requests and URLFor calls on the same register
\* ------------------------------------------------------------------------

\* GET, PUT, and POST with _method=PUT, for /User/7
RequestsURL ==
  {[Method |-> "GET", Path |-> <<"User", "7">>, _method |-> ""],
   [Method |-> "PUT", Path |-> <<"User", "7">>, _method |-> ""],
   [Method |-> "POST", Path |-> <<"User", "7">>, _method |-> "PUT"]}

\* one route of each kind under /User/:id, and an after-exec filter
RegisterShared ==
  \/ Add(<<"User", ":id">>, "UserController", <<>>)
  \/ AddMethod("put", <<"User", ":id">>, "runFunction")
  \/ Handler(<<"User", ":id">>, "handler", <<>>)
  \/ InsertFilter(<<"User", ":id">>, AfterExec, "filterFunc", <<>>)

\* URLFor("pkg.UserController.Get", ":id", "7")
URLForShared == URLFor(<<"pkg", "UserController", "Get">>, <<":id", "7">>)

ServeShared ==
  \/ \E request \in RequestsURL : ServeHTTP(request)
  \/ ServeSteps

\* a URLFor call may fall between any two steps of a request
NextShared == RegisterShared \/ ServeShared \/ URLForShared

SpecShared == Init /\ [][NextShared]_vars

\* ------------------------------------------------------------------------
\* The dispatch of one controller route, under every verb map
\* ------------------------------------------------------------------------

\* the methods maps Add can build from a mapping string over these verb
\* tokens and two methods of the controller
VerbMapKeys == {"GET", "POST", "PUT", "DELETE", "*"}
VerbMapValues == {"List", "Get"}
VerbMaps ==
  {vm \in SUBSET (VerbMapKeys \X VerbMapValues) :
     \A e \in vm, f \in vm : e[1] = f[1] => e = f}
ResolveRequests ==
  {[Method |-> m, Path |-> p, _method |-> o] :
     m \in {"GET", "POST", "PUT", "DELETE", "HEAD"}, p \in Paths,
     o \in {"", "PUT", "DELETE"}}

\* the register after one Add of a controller with the verb map vm (lines
\* 166-185), and a request that has come to line 676: no filters, no static
\* file, sessions off
InitResolve ==
  /\ RouterCaseSensitive \in BOOLEAN
  /\ \E pattern \in Patterns, c \in Controllers, vm \in VerbMaps :
       LET route == [AddRoute(pattern, c, <<>>) EXCEPT !.methods = vm]
           rs == [m \in {} |-> NewTree]
       IN routers = IF Cardinality(vm) = 0
                    THEN AddEach(rs, HTTPMETHOD, pattern, route)
                    ELSE AddKeys(rs, Keys(vm), pattern, route)
  /\ enableFilter = FALSE
  /\ filters = [p \in {} |-> <<>>]
  /\ registrations = 1
  /\ url = NoCall
  /\ pc = "findrouter"
  /\ r \in ResolveRequests
  /\ urlPath = IF ~RouterCaseSensitive THEN ToLower(r.Path) ELSE r.Path
  /\ started = FALSE
  /\ status = 0
  /\ rwHeader = 0
  /\ OutputStatus = 0
  /\ RunController = "nil"
  /\ RunMethod = ""
  /\ CruSession = "nil"
  /\ findrouter = FALSE
  /\ runrouter = "nil"
  /\ runMethod = ""
  /\ routerInfo = NoRoute
  /\ pos = BeforeRouter
  /\ idx = 1
  /\ defers = <<"recoverPanic">>
  /\ err = "nil"
  /\ settings = {<<"SessionOn", B(FALSE)>>}
  /\ log = <<DoFilterEv(BeforeStatic, 0, FALSE), Ev("serverStaticRouter")>>
           \o ParseEvents(r) \o <<DoFilterEv(BeforeRouter, 0, FALSE)>>

\* lines 676-768 of ServeHTTP for that request
NextResolve ==
  \/ FindRouter
  \/ DoFilterEnd
  \/ ExecController
  \/ \E e \in Effects : CtrlPrepare(e)

SpecResolve == InitResolve /\ [][NextResolve]_vars

\* ------------------------------------------------------------------------
\* What the log of a request shows
\* ------------------------------------------------------------------------

Events == 1..Len(log)
Later(i) == (i + 1)..Len(log)

\* the calls that run a handler: a function, an http.Handler, the hooks of
\* a controller
HandlerEvents ==
  {"runFunction", "handler.ServeHTTP", "Init", "Prepare", "XSRFToken",
   "CheckXSRFCookie", "URLMapping", "Method", "HandlerFunc", "Render", "Finish"}
\* the calls of the Admin block and of the deferred session release
FinalizeEvents == {"Admin", "writer.WriteHeader", "SessionRelease"}

NoHandlerRan == \A i \in Events : log[i].ev \notin HandlerEvents
Ended == pc \in {"done", "crashed"}

\* ------------------------------------------------------------------------
\* C1
\* ------------------------------------------------------------------------

StopsEarly(i) ==
  log[i].ev = "doFilter" /\ log[i].arg = "true" /\ log[i].pos <= BeforeExec

\* C1: when doFilter at before-static, before-router or before-exec returns
\* true, ServeHTTP is at Admin: nothing but the Admin block and the deferred
\* session release is called after it (no trie lookup, no handler, no filter
\* of a later point), and the Admin block runs before ServeHTTP returns.
C1_StopGoesToAdmin ==
  \A i \in Events :
    StopsEarly(i) =>
      /\ pc \in {"Admin", "done"}
      /\ \A j \in Later(i) : log[j].ev \in FinalizeEvents
      /\ pc = "done" => \E j \in Later(i) : log[j].ev = "Admin"

\* a before-router filter inserted with returnOnOutput wrote the response,
\* and the route the lookup would have found was never looked up
C1_Witness ==
  /\ pc = "done"
  /\ \E i \in Events \ {1} :
       /\ log[i] = DoFilterEv(BeforeRouter, 1, TRUE)
       /\ log[i - 1] = FilterEv(BeforeRouter, 1)
  /\ LookupRoute(Override(r), urlPath) # NoRoute
  /\ \A i \in Events : log[i].ev # "Tree.Match"
  /\ NoHandlerRan

\* ------------------------------------------------------------------------
\* C2
\* ------------------------------------------------------------------------

\* the trie of the verb holds no pattern that matches the path
Miss(verb, path) ==
  verb \notin DOMAIN routers \/ Matching(routers[verb], path) = {}
\* the trie of some other verb does
MatchesOther(verb, path) ==
  \E m \in DOMAIN routers \ {verb} : Matching(routers[m], path) # {}

\* the request went through the lookup of lines 682-716
LookupDone ==
  /\ \E i \in Events : log[i] = DoFilterEv(BeforeRouter, 0, FALSE)
  /\ pc # "findrouter"
  /\ ~PreResolved

\* exception(code) called by ServeHTTP itself, not by recoverPanic
Raised(code) ==
  \E i \in Events :
    log[i] = EvArg("exception", code) /\ (i = 1 \/ log[i - 1].ev # "recover")

\* C2 as the specification states it: a path that another verb's trie
\* matches and the trie of the request's verb does not gives 405, a path no
\* trie matches gives 404, and no handler is invoked in either case.
C2_Original ==
  (pc = "done" /\ ~enableFilter /\ LookupDone) =>
    /\ (Miss(r.Method, urlPath) /\ MatchesOther(r.Method, urlPath)) =>
         (Raised("405") /\ NoHandlerRan)
    /\ (\A m \in HTTPMETHOD : Miss(m, urlPath)) =>
         (Raised("404") /\ NoHandlerRan)

\* C2, amended: a request that reaches the lookup and whose path the trie of
\* its verb (PUT or DELETE for a POST that carries that override) does not
\* match gets the 404 exception and no handler, also when the trie of
\* another verb matches the path; 404 is raised on no other lookup; the 405
\* exception is raised only for a function route that the lookup found and
\* that does not accept the verb of the request, and then no handler runs.
C2_MissIs404 ==
  LookupDone =>
    /\ Miss(Override(r), urlPath) => (Raised("404") /\ NoHandlerRan)
    /\ Raised("404") => Miss(Override(r), urlPath)
    /\ Raised("405") =>
         /\ ~Miss(Override(r), urlPath)
         /\ routerInfo.routerType = routerTypeRESTFul
         /\ ~Accepts(routerInfo, r.Method)
         /\ NoHandlerRan

\* without filters, a path registered for another verb only: 404
C2_Witness ==
  /\ pc = "done"
  /\ ~enableFilter
  /\ LookupDone
  /\ Miss(Override(r), urlPath)
  /\ MatchesOther(Override(r), urlPath)
  /\ Raised("404")

\* ------------------------------------------------------------------------
\* C3
\* ------------------------------------------------------------------------

AfterExecReturned(i) == log[i].ev = "doFilter" /\ log[i].pos = AfterExec
\* doFilter(FinishRouter) was called after event i: it returned, or one of
\* its callbacks ran
FinishEvaluated(i) ==
  \E j \in Later(i) :
    log[j].pos = FinishRouter /\ log[j].ev \in {"doFilter", "filterFunc"}

\* C3 as the specification states it: every request on which the after-exec
\* point has returned evaluates the finish point, whatever was returned.
C3_Original ==
  pc = "done" => \A i \in Events : AfterExecReturned(i) => FinishEvaluated(i)

\* C3, amended: when doFilter(AfterExec) returns false, doFilter(FinishRouter)
\* is called next; when it returns true, the finish point is skipped and only
\* the Admin block and the deferred calls follow; whatever
\* doFilter(FinishRouter) returns, the Admin block is what follows.
C3_FinishUnlessAfterExecStops ==
  /\ \A i \in Events :
       AfterExecReturned(i) =>
         IF log[i].arg = "true"
         THEN /\ pc \in {"Admin", "done"}
              /\ \A j \in Later(i) : log[j].ev \in FinalizeEvents
         ELSE /\ pos = FinishRouter
              /\ Ended => FinishEvaluated(i)
  /\ \A i \in Events :
       (log[i].ev = "doFilter" /\ log[i].pos = FinishRouter) =>
         /\ pc \in {"Admin", "done"}
         /\ i < Len(log) => log[i + 1].ev = "Admin"

\* a handler ran, the after-exec point returned true, and the request ended
\* without the finish point
C3_Witness ==
  /\ pc = "done"
  /\ \E i \in Events :
       /\ AfterExecReturned(i)
       /\ log[i].arg = "true"
       /\ ~FinishEvaluated(i)
       /\ \E j \in 1..(i - 1) : log[j].ev \in HandlerEvents

\* ------------------------------------------------------------------------
\* C4
\* ------------------------------------------------------------------------

Positions == BeforeStatic..FinishRouter
Ran(p, k) == \E i \in Events : log[i] = FilterEv(p, k)
\* the loop of doFilter(p) has gone past filter k without returning at it
Passed(p, k) ==
  \/ pc = "doFilter" /\ pos = p /\ k < idx
  \/ \E i \in Events :
       /\ log[i].ev = "doFilter" /\ log[i].pos = p
       /\ (log[i].arg = "false" \/ k < log[i].idx)

\* C4: within one point the callbacks run in the order of insertion; the
\* point returns true only at a filter inserted with returnOnOutput that
\* finds the response started, and no callback of the point runs after
\* that; the loop never goes past such a filter once the response has
\* started; a filter it goes past has run its callback if its pattern
\* matches, started or not; a point without filters never returns true.
C4_FilterOrder ==
  /\ \A i \in Events : \A j \in Later(i) :
       (log[i].ev = "filterFunc" /\ log[j].ev = "filterFunc"
        /\ log[i].pos = log[j].pos) => log[i].idx < log[j].idx
  /\ \A i \in Events :
       (log[i].ev = "doFilter" /\ log[i].arg = "true") =>
         /\ log[i].idx \in 1..Len(FilterList(log[i].pos))
         /\ FilterList(log[i].pos)[log[i].idx].returnOnOutput
         /\ started
         /\ \A k \in (log[i].idx + 1)..Len(FilterList(log[i].pos)) :
              ~Ran(log[i].pos, k)
  /\ (pc = "doFilter" /\ idx > 1 /\ FilterList(pos)[idx - 1].returnOnOutput)
       => ~started
  /\ \A p \in Positions : \A k \in 1..Len(FilterList(p)) :
       (Passed(p, k) /\ ValidRouter(FilterList(p)[k], urlPath)) => Ran(p, k)

\* two filters of one point: the first, inserted without returnOnOutput, ran
\* its callback on a started response and the point went on; the second,
\* inserted with it, ended the point before its own callback
C4_Witness ==
  /\ pc = "done"
  /\ \E p \in Positions :
       /\ Len(FilterList(p)) = 2
       /\ ~FilterList(p)[1].returnOnOutput
       /\ FilterList(p)[2].returnOnOutput
       /\ Ran(p, 1)
       /\ ~Ran(p, 2)
       /\ \E i \in Events : log[i] = DoFilterEv(p, 2, TRUE)

\* ------------------------------------------------------------------------
\* C5
\* ------------------------------------------------------------------------

\* the request has read the setting and found that value
Read(k, v) == <<k, v>> \in settings
\* the request left a handler, a hook or a filter by a panic
Faulted == Ended /\ err # "nil"
\* recoverPanic called the exception handler registered for the panic value
ExceptionRan ==
  \E i \in Events \ {Len(log)} :
    log[i].ev = "recover" /\ log[i + 1] = EvArg("exception", Sprint(err))

RecoverySettings == {"RecoverPanic", "EnableErrorsShow", "ErrorMaps", "RunMode"}

\* C6: a panic with ErrAbort ends in recoverPanic whatever the settings are:
\* recoverPanic returns at once for every value of RecoverPanic,
\* EnableErrorsShow, ErrorMaps and RunMode and reads none of them, ServeHTTP
\* returns, and after recover() no exception handler runs, nothing is
\* logged, no page is shown and the panic is not raised again.
C6_AbortSwallowed ==
  /\ \A RecoverPanic \in BOOLEAN, EnableErrorsShow \in BOOLEAN,
        registered \in BOOLEAN, dev \in BOOLEAN :
       /\ recoverPanic(ErrAbort, RecoverPanic, EnableErrorsShow, registered, dev)
            = "abort"
       /\ RecoverReads(ErrAbort, RecoverPanic, EnableErrorsShow, registered, dev)
            = {}
  /\ (Faulted /\ err = ErrAbort) =>
       /\ pc = "done"
       /\ Keys(settings) \cap RecoverySettings = {}
       /\ \E i \in Events : log[i].ev = "recover"
       /\ \A i \in Events :
            log[i].ev = "recover" =>
              \A j \in Later(i) :
                log[j].ev \notin {"exception", "Critical", "showErr", "panic"}

\* a handler panicked with ErrAbort and ServeHTTP returned
C6_Witness ==
  /\ pc = "done"
  /\ err = ErrAbort
  /\ \E i \in Events : log[i].ev = "recover"
  /\ \E i \in Events : log[i].ev \in HandlerEvents

\* ------------------------------------------------------------------------
\* C7
\* ------------------------------------------------------------------------

Count(name) == Cardinality({i \in Events : log[i].ev = name})
Acquired == \E i \in Events : log[i] = EvArg("SessionStart", "ok")

\* C7: the session is released only when ServeHTTP is left, at most once;
\* a request that has ended released it exactly once if it had started it
\* and never otherwise; the release comes before recoverPanic's recover().
C7_ReleaseOnce ==
  /\ Count("SessionRelease") <= 1
  /\ ~Ended => Count("SessionRelease") = 0
  /\ Ended => Count("SessionRelease") = (IF Acquired THEN 1 ELSE 0)
  /\ \A i \in Events : \A j \in Events :
       (log[i].ev = "SessionRelease" /\ log[j].ev = "recover") => i < j

\* a panic that recoverPanic raised again, the session released before
C7_Witness ==
  /\ pc = "crashed"
  /\ Acquired
  /\ Count("SessionRelease") = 1
  /\ \E i \in Events : log[i].ev = "panic"

\* ------------------------------------------------------------------------
\* C8
\* ------------------------------------------------------------------------

\* C8: when the session cannot be started, exception("503") is the last
\* call of the request and ServeHTTP returns: what was called before it is
\* the before-static filters and the static file server, and nothing is
\* called after it (no form parsing, no filter, no lookup, no handler, no
\* Admin block).
C8_SessionFailReturns ==
  \A i \in Events :
    log[i] = EvArg("SessionStart", "err") =>
      /\ pc = "done"
      /\ Len(log) = i + 1
      /\ log[i + 1] = EvArg("exception", "503")
      /\ CruSession = "nil"
      /\ \A j \in 1..(i - 1) :
           \/ log[j].ev = "serverStaticRouter"
           \/ log[j].ev \in {"doFilter", "filterFunc"} /\ log[j].pos = BeforeStatic

\* a POST to a registered route, with a before-router filter inserted, ends at
\* the 503
C8_Witness ==
  /\ pc = "done"
  /\ Len(log) >= 2
  /\ log[Len(log)] = EvArg("exception", "503")
  /\ log[Len(log) - 1] = EvArg("SessionStart", "err")
  /\ r.Method = "POST"
  /\ BeforeRouter \in DOMAIN filters
  /\ LookupRoute(Override(r), urlPath) # NoRoute

\* ------------------------------------------------------------------------
\* C9
\* ------------------------------------------------------------------------

\* C9 as the specification states it: the Admin block writes the status to
\* the underlying writer only when no header has been written to it before,
\* and a request whose response has started gets no header written by it.
C9_Original ==
  \A i \in Events :
    log[i].ev = "writer.WriteHeader" => log[i].arg = "first"

\* a function wrote the response and set Output.Status: the Admin block
\* wrote the header a second time
C9_Witness ==
  /\ pc = "done"
  /\ started
  /\ rwHeader = 200
  /\ OutputStatus = 201
  /\ \E i \in Events : log[i] = EvArg("writer.WriteHeader", "again")
  /\ \E i \in Events : log[i].ev = "runFunction"

\* ------------------------------------------------------------------------
\* C10
\* ------------------------------------------------------------------------

\* C10: a request whose verb is not one of the nine gets the 405 of
\* http.Error and then the Admin block, and nothing else is called: no
\* filter, no static file server, no session, no lookup, no handler.
C10_WrongMethod ==
  (pc \notin {"idle", "fatal"} /\ r.Method \notin HTTPMETHOD) =>
    /\ pc \in {"Admin", "done"}
    /\ log[1] = EvArg("http.Error", "405")
    /\ status = 405
    /\ rwHeader = 405
    /\ CruSession = "nil"
    /\ \A j \in 2..Len(log) : log[j].ev = "Admin"

\* BREW on a path that a route and a before-static filter are registered for
C10_Witness ==
  /\ pc = "done"
  /\ r.Method = "BREW"
  /\ BeforeStatic \in DOMAIN filters
  /\ ValidRouter(filters[BeforeStatic][1], urlPath)
  /\ \E m \in DOMAIN routers : ~Miss(m, urlPath)
  /\ Len(log) = 2

\* ------------------------------------------------------------------------
\* C11
\* ------------------------------------------------------------------------

\* how many handlers the request has entered: functions, http.Handlers and
\* controllers (a controller is entered by its Init)
HandlersEntered ==
  Count("runFunction") + Count("handler.ServeHTTP") + Count("Init")
\* doFilter(BeforeExec) returned false and ServeHTTP went through the dispatch
\* of lines 723-768
Dispatched ==
  /\ \E i \in Events : log[i] = DoFilterEv(BeforeExec, 0, FALSE)
  /\ pc \notin {"exec", "Prepare"}
\* the static file server wrote the response
StaticHit ==
  \E i \in Events \ {Len(log)} :
    log[i].ev = "serverStaticRouter" /\ log[i + 1].ev = "Admin"

\* C11: a request enters at most one handler, once; a request that went
\* through the dispatch entered exactly one unless the 405 exception was
\* raised for a function route; a request enters none before the
\* before-exec point has returned false, so none on a filter stop, a static
\* hit, a 404 or a 405.
C11_OneHandler ==
  /\ HandlersEntered <= 1
  /\ Dispatched => (HandlersEntered = 1 <=> ~Raised("405"))
  /\ HandlersEntered = 1 => \E i \in Events : log[i] = DoFilterEv(BeforeExec, 0, FALSE)
  /\ ((\E i \in Events : StopsEarly(i)) \/ StaticHit \/ Raised("404") \/ Raised("405"))
       => HandlersEntered = 0

\* an http.Handler ran, the after-exec and finish points followed, and no
\* function or controller was entered
C11_Witness ==
  /\ pc = "done"
  /\ Count("handler.ServeHTTP") = 1
  /\ HandlersEntered = 1
  /\ \E i \in Events : log[i].ev = "doFilter" /\ log[i].pos = FinishRouter

\* ------------------------------------------------------------------------
\* C12
\* ------------------------------------------------------------------------

\* the pattern as addToRouter hands it to the trie
Folded(pattern) == IF ~RouterCaseSensitive THEN ToLower(pattern) ELSE pattern
\* the leaf the step has appended to the trie of verb m
Appended(m) == routers'[m][Len(routers'[m])]
\* the step has appended one leaf to the trie of verb m
AppendsTo(m) ==
  /\ m \in DOMAIN routers'
  /\ Len(routers'[m]) = (IF m \in DOMAIN routers THEN Len(routers[m]) ELSE 0) + 1

\* C12 as the specification states it: Handler registers the route in the
\* trie of every verb, under the pattern followed by the catch-all when the
\* option is true and under exactly the given pattern when the option is
\* false or absent.
C12_Original ==
  [][\A pattern \in Patterns, o \in HandlerOptions :
       Handler(pattern, "handler", o) =>
         \A m \in HTTPMETHOD :
           /\ AppendsTo(m)
           /\ Appended(m).runObject.routerType = routerTypeHandler
           /\ Appended(m).runObject.handler = "handler"
           /\ Appended(m).pattern =
                Folded(IF o = <<TRUE>> THEN JoinAll(pattern) ELSE pattern)]_vars

\* ------------------------------------------------------------------------
\* C13
\* ------------------------------------------------------------------------

\* the leaves of the trie of verb m
Leaves(m) ==
  IF m \in DOMAIN routers THEN {routers[m][i] : i \in 1..Len(routers[m])} ELSE {}
AllLeaves == UNION {Leaves(m) : m \in DOMAIN routers}
\* the verbs whose tries a controller route belongs in
ExpectedVerbs(methods) ==
  IF methods = {} \/ HasKey(methods, "*") THEN HTTPMETHOD ELSE Keys(methods)

\* C13: after any sequence of registrations, a controller route is in the
\* trie of a verb exactly when its verb map is empty or holds "*" (then all
\* nine verbs), or names the verb; the keys of the map are upper case, and
\* there are tries for the nine verbs only.
C13_AddVerbs ==
  /\ DOMAIN routers \subseteq HTTPMETHOD
  /\ \A leaf \in AllLeaves :
       leaf.runObject.routerType = routerTypeBeego =>
         /\ Keys(leaf.runObject.methods) \subseteq HTTPMETHOD \cup {"*"}
         /\ \A m \in HTTPMETHOD :
              leaf \in Leaves(m) <=> m \in ExpectedVerbs(leaf.runObject.methods)

\* a controller registered for "get" alone is in the GET trie and not in
\* the PUT trie that another registration has made; a controller registered
\* with "*" would be in both
C13_Witness ==
  /\ "PUT" \in DOMAIN routers
  /\ \E leaf \in Leaves("GET") :
       /\ leaf.runObject.routerType = routerTypeBeego
       /\ Keys(leaf.runObject.methods) = {"GET"}
       /\ leaf \notin Leaves("PUT")

\* ------------------------------------------------------------------------
\* C14
\* ------------------------------------------------------------------------

\* a mapping item that is not verbs:Method, that holds a verb token which is
\* neither "*" nor one of the nine verbs, or that names a method the
\* controller does not have
BadItem(item, c) ==
  \/ Len(item) # 2
  \/ \E i \in 1..Len(item[1]) :
       item[1][i] # "*" /\ ToUpper(item[1][i]) \notin HTTPMETHOD
  \/ Len(item) = 2 /\ item[2] \notin ControllerMethods(c)
BadMapping(c, mappingMethods) ==
  /\ Len(mappingMethods) > 0
  /\ \E i \in 1..Len(mappingMethods[1]) : BadItem(mappingMethods[1][i], c)
BadVerb(method) == method # "*" /\ ToUpper(method) \notin HTTPMETHOD
TableKept == UNCHANGED <<routers, filters, enableFilter>>

\* C14: Add with a mapping that holds a bad item, wherever in the mapping
\* string it stands, and AddMethod with a verb that is neither "*" nor one
\* of the nine, end in the fatal error, and every step that ends in the
\* fatal error leaves the tries and the filter lists as they were.
C14_FatalKeepsTable ==
  [][/\ \A pattern \in Patterns, c \in Controllers, m \in Mappings :
          (Add(pattern, c, m) /\ BadMapping(c, m)) => (pc' = "fatal" /\ TableKept)
     /\ \A method \in AddMethodVerbs, pattern \in Patterns :
          (AddMethod(method, pattern, "runFunction") /\ BadVerb(method))
            => (pc' = "fatal" /\ TableKept)
     /\ pc' = "fatal" => TableKept]_vars

\* a registration failed after another one had succeeded, and the route of
\* the first is still what the tries hold
C14_Witness ==
  /\ pc = "fatal"
  /\ registrations = 2
  /\ AllLeaves # {}

\* ------------------------------------------------------------------------
\* C16
\* ------------------------------------------------------------------------

\* the before-router filters have returned, the lines 676-716 are behind,
\* and the context names a controller and a method
ResolvedByFilter ==
  /\ \E i \in Events : log[i] = DoFilterEv(BeforeRouter, 0, FALSE)
  /\ pc # "findrouter"
  /\ RunController # "nil"
  /\ RunMethod # ""

\* C16: when the context names a controller and a method once the
\* before-router filters have returned, the request is marked found, no trie
\* is matched against the path, the 404 exception is not raised, no route is
\* taken from a trie, and the handler that runs once the before-exec filters
\* have returned false is the controller lifecycle, once, on the named
\* controller, initialised with the named method as it stands.
C16_PreResolved ==
  ResolvedByFilter =>
    /\ findrouter
    /\ \A i \in Events : log[i].ev # "Tree.Match"
    /\ ~Raised("404")
    /\ routerInfo = NoRoute
    /\ runrouter = RunController
    /\ runMethod = RunMethod
    /\ \A i \in Events : log[i].ev = "Init" => log[i].arg = RunMethod
    /\ Dispatched =>
         /\ Count("Init") = 1
         /\ Count("runFunction") + Count("handler.ServeHTTP") = 0

\* a filter named the controller for a path that no trie of the verb holds:
\* the lifecycle ran the named method where the lookup would have missed
C16_Witness ==
  /\ pc = "done"
  /\ ResolvedByFilter
  /\ LookupRoute(Override(r), urlPath) = NoRoute
  /\ Count("Init") = 1
  /\ \E i \in Events : log[i] = EvArg("Method", RunMethod)
  /\ Count("Finish") = 1

\* ------------------------------------------------------------------------
\* C18
\* ------------------------------------------------------------------------

SessionFailed == \E i \in Events : log[i] = EvArg("SessionStart", "err")

\* C18: a request whose session did not fail to start has run the Admin
\* block exactly once when ServeHTTP has returned, on every path, the
\* path of a filter or a handler whose panic recoverPanic handles included.
C18_Original ==
  (pc = "done" /\ ~SessionFailed) => Count("Admin") = 1

\* the same for the requests that no panic has ended
C18_AdminWithoutPanic ==
  (pc = "done" /\ ~SessionFailed /\ err = "nil") => Count("Admin") = 1

\* a function panicked with "404", recoverPanic wrote the error page, and
\* ServeHTTP returned without the Admin block
C18_Witness ==
  /\ pc = "done"
  /\ ~SessionFailed
  /\ err = "404"
  /\ Count("runFunction") = 1
  /\ \E i \in Events \ {1} : log[i] = EvArg("exception", "404") /\ log[i - 1].ev = "recover"
  /\ Count("Admin") = 0

\* ------------------------------------------------------------------------
\* C19
\* ------------------------------------------------------------------------

\* the lookup found a function route and the before-exec filters let the
\* request through to lines 723-732
FunctionDispatched ==
  /\ routerInfo # NoRoute
  /\ routerInfo.routerType = routerTypeRESTFul
  /\ \E i \in Events : log[i] = DoFilterEv(BeforeExec, 0, FALSE)
  /\ pc # "exec"
\* the verb whose trie the lookup takes
LookupVerb ==
  IF r.Method = "POST" /\ r._method = "PUT" THEN "PUT"
  ELSE IF r.Method = "POST" /\ r._method = "DELETE" THEN "DELETE"
  ELSE r.Method

\* C19: the function of a function route is called, once, exactly when the
\* route is dispatched and the verb of the request as it was sent is a key of
\* the route's verb set; the override selects the trie of the lookup only.
\* Otherwise the 405 exception is raised, and after it nothing but the Admin
\* block and the session release is called: no function, no after-exec or
\* finish filter.
C19_FunctionVerb ==
  /\ Count("runFunction") <= 1
  /\ Count("runFunction") = 1 => FunctionDispatched
  /\ FunctionDispatched =>
       /\ Count("runFunction") = 1 <=> r.Method \in Keys(routerInfo.methods)
       /\ Raised("405") <=> r.Method \notin Keys(routerInfo.methods)
       /\ \E i \in Events : log[i] = EvArg("Tree.Match", LookupVerb)
  /\ \A i \in Events :
       log[i] = EvArg("exception", "405") =>
         /\ pc \in {"Admin", "done"}
         /\ \A j \in Later(i) : log[j].ev \in FinalizeEvents
         /\ \A j \in Events : ~(log[j].ev \in {"filterFunc", "doFilter"} /\ log[j].pos >= AfterExec)

\* POST with _method=PUT found the function registered for PUT alone: 405,
\* the function not called, the Admin block run
C19_Witness ==
  /\ pc = "done"
  /\ r.Method = "POST"
  /\ r._method = "PUT"
  /\ FunctionDispatched
  /\ Keys(routerInfo.methods) = {"PUT"}
  /\ Raised("405")
  /\ Count("runFunction") = 0
  /\ Count("Admin") = 1

\* ------------------------------------------------------------------------
\* C20
\* ------------------------------------------------------------------------

\* PUT or DELETE for a POST that carries that override, else the verb sent
EffectiveVerb(request) ==
  IF request.Method = "POST" /\ request._method = "PUT" THEN "PUT"
  ELSE IF request.Method = "POST" /\ request._method = "DELETE" THEN "DELETE"
  ELSE request.Method
\* the entry of the verb, else the entry of "*", else the verb itself
ExpectedMethod(verbMap, E) ==
  IF \E v \in VerbMapValues : <<E, v>> \in verbMap
  THEN CHOOSE v \in VerbMapValues : <<E, v>> \in verbMap
  ELSE IF \E v \in VerbMapValues : <<"*", v>> \in verbMap
  THEN CHOOSE v \in VerbMapValues : <<"*", v>> \in verbMap
  ELSE E

\* C20: for every verb map a controller is registered with and every
\* request, found by the lookup or not, the method resolved for the
\* effective verb E is the map's entry for E, else its entry for "*", else E
\* itself; and the controller route that ServeHTTP dispatches gets its
\* controller type and, as the method its Init is called with, that method.
C20_ResolveMethod ==
  /\ \A leaf \in AllLeaves :
       ResolveMethod(leaf.runObject.methods, Override(r))
         = ExpectedMethod(leaf.runObject.methods, EffectiveVerb(r))
  /\ (pc \in {"Prepare", "XSRF"} /\ routerInfo # NoRoute) =>
       /\ runrouter = routerInfo.controllerType
       /\ runMethod = ExpectedMethod(routerInfo.methods, EffectiveVerb(r))
  /\ \A i \in Events :
       log[i].ev = "Init" =>
         log[i].arg = ExpectedMethod(routerInfo.methods, EffectiveVerb(r))

\* POST with _method=PUT on a route whose map holds PUT and "*": the entry
\* of PUT is the method Init was called with
C20_Witness ==
  /\ pc = "XSRF"
  /\ r.Method = "POST"
  /\ r._method = "PUT"
  /\ <<"PUT", "Get">> \in routerInfo.methods
  /\ <<"*", "List">> \in routerInfo.methods
  /\ \E i \in Events : log[i] = EvArg("Init", "Get")

\* ------------------------------------------------------------------------
\* C15
\* ------------------------------------------------------------------------

\* the leaf is the one controller route of the tries: every controller leaf
\* of every trie is this route under this pattern
OnlyControllerLeaf(leaf) ==
  \A other \in AllLeaves :
    other.runObject.routerType = routerTypeBeego => other = leaf
\* the verb map of the leaf maps some verb to the method
MapsTo(leaf, method) == \E e \in leaf.runObject.methods : e[2] = method
\* the pattern with the value in the place of its named wildcard
Filled(pattern, v) ==
  [i \in 1..Len(pattern) |-> IF pattern[i] = ":id" THEN v ELSE pattern[i]]
OneNamedWildcard(pattern) ==
  Cardinality({i \in 1..Len(pattern) : pattern[i] = ":id"}) = 1
URLOf(p) == [empty |-> FALSE, path |-> p, query |-> {}]

LifecycleRank(ev) ==
  CASE ev = "Init" -> 1
    [] ev = "Prepare" -> 2
    [] ev = "XSRFToken" -> 3
    [] ev = "CheckXSRFCookie" -> 4
    [] ev = "URLMapping" -> 5
    [] ev \in {"Method", "HandlerFunc"} -> 6
    [] ev = "Render" -> 7
    [] ev = "Finish" -> 8
    [] OTHER -> 0
OnController(i) == LifecycleRank(log[i].ev) > 0
\* what is called while ServeHTTP is left by a panic
UnwindEvents ==
  {"SessionRelease", "recover", "panic", "exception", "Critical", "showErr"}
\* Render was called and Finish was not called next
RenderFailed(i) ==
  /\ log[i].ev = "Render"
  /\ pc # "Finish"
  /\ (i = Len(log) \/ log[i + 1].ev # "Finish")

\* the hooks the request has called so far are in order, none twice, none
\* without those before it; a lifecycle left without a panic has called
\* Finish once; after a Render that failed nothing but the unwinding follows
LifecycleSoFar ==
  /\ \A i \in Events, j \in Events :
       (i < j /\ OnController(i) /\ OnController(j)) =>
         LifecycleRank(log[i].ev) < LifecycleRank(log[j].ev)
  /\ Count("Prepare") = Count("Init")
  /\ Count("URLMapping") = 1 =>
       /\ Count("Prepare") = 1
       /\ Count("XSRFToken") = 1 <=> Read("EnableXSRF", "true")
       /\ Count("CheckXSRFCookie") = 1 <=>
            (Read("EnableXSRF", "true") /\ r.Method \in {"POST", "DELETE", "PUT"})
  /\ Count("CheckXSRFCookie") = 1 => Count("XSRFToken") = 1
  /\ Count("Method") + Count("HandlerFunc") = 1 => Count("URLMapping") = 1
  /\ Count("Render") = 1 => (Count("Method") = 1 /\ Read("AutoRender", "true"))
  /\ Count("Finish") = 1 => Count("URLMapping") = 1
  /\ (/\ Count("Init") = 1
      /\ err = "nil"
      /\ pc \notin {"XSRF", "Method", "Render", "Finish"})
       => Count("Finish") = 1
  /\ \A i \in Events :
       RenderFailed(i) =>
         /\ err # "nil"
         /\ Count("Finish") = 0
         /\ \A j \in Later(i) : log[j].ev \in UnwindEvents

\* C21: the controller's hooks are called in the order Init, Prepare,
\* XSRFToken and CheckXSRFCookie when XSRF is on, URLMapping, the method,
\* Render, Finish; the method is called exactly when the response has not
\* started when its turn comes; Render is called exactly when the method was
\* called and after it the response has not started, no status is set and
\* AutoRender is on; a lifecycle that no panic ends calls Finish once; a
\* Render that fails leaves ServeHTTP by a panic, without Finish and without
\* the after-exec and finish filters.
C21_Lifecycle ==
  [][/\ LifecycleSoFar'
     /\ pc = "Method" =>
          IF started
          THEN log' = log /\ pc' = "Finish"
          ELSE /\ Len(log') = Len(log) + 1
               /\ log'[Len(log')].ev \in {"Method", "HandlerFunc"}
     /\ pc = "Render" =>
          IF ~started /\ OutputStatus = 0 /\ <<"AutoRender", "true">> \in settings'
          THEN log' = Append(log, Ev("Render"))
          ELSE log' = log /\ pc' = "Finish"]_vars

\* POST to a controller route with XSRF and AutoRender on: every hook was
\* called, and the request ended without a panic
C21_Witness ==
  /\ pc = "done"
  /\ err = "nil"
  /\ \A name \in {"Init", "Prepare", "XSRFToken", "CheckXSRFCookie", "URLMapping",
                  "Method", "Render", "Finish"} : Count(name) = 1
  /\ Count("Admin") = 1

\* ------------------------------------------------------------------------
\* C24
\* ------------------------------------------------------------------------

\* something was written to the http.ResponseWriter ServeHTTP was called with
Written == rwHeader # 0
\* doFilter is about to test the filter of its turn
FilterTurn ==
  /\ pc = "doFilter"
  /\ idx <= Len(FilterList(pos))
\* the http.Handler of a Handler route was the last to be called
HandlerJustRan == Len(log) > 0 /\ log[Len(log)].ev = "handler.ServeHTTP"

\* C24: once a filter, the static file server, a function, an http.Handler or
\* a controller has written to the response, responseWriter.started is true,
\* and a filter of AfterExec or FinishRouter with returnOnOutput whose turn
\* comes then ends the point without its callback. (The Admin block writes
\* the status of the context itself, lines 858-860; the flag is read before.)
C24_Original ==
  /\ (Written /\ Count("Admin") = 0) => started
  /\ (/\ FilterTurn
      /\ pos \in {AfterExec, FinishRouter}
      /\ FilterList(pos)[idx].returnOnOutput
      /\ Written)
       => Halts(FilterList(pos)[idx], started)

\* the http.Handler has written, started is false, and the callback of an
\* AfterExec filter with returnOnOutput that matches the request is next
C24_Witness ==
  /\ HandlerJustRan
  /\ Written
  /\ ~started
  /\ FilterTurn
  /\ pos = AfterExec
  /\ FilterList(pos)[idx].returnOnOutput
  /\ ValidRouter(FilterList(pos)[idx], urlPath)
  /\ ~Halts(FilterList(pos)[idx], started)

\* what holds: until the Admin block writes the status itself (lines 858-860),
\* a request in which no http.Handler was called has started set whenever
\* something was written
C24_StartedWithoutHandler ==
  (Written /\ \A i \in Events : log[i].ev \notin {"handler.ServeHTTP", "Admin"})
    => started

\* ------------------------------------------------------------------------
\* C22
\* ------------------------------------------------------------------------

\* the names of a wildcard list, its markers left out
Names(ws) == SelectSeq(ws, LAMBDA w : w # ":")
\* the names for which the caller has given a parameter, in the list's order
Present(ws, params) == SelectSeq(ws, LAMBDA w : w # ":" /\ HasKey(params, w))
\* entry i of the list is a name without a parameter
MissingAt(ws, params, i) == ws[i] # ":" /\ ~HasKey(params, ws[i])
NumMissing(ws, params) ==
  Cardinality({i \in 1..Len(ws) : MissingAt(ws, params, i)})
\* a marker stands before entry i with no missing name between them
Armed(ws, params, i) ==
  \E j \in 1..(i - 1) :
    /\ ws[j] = ":"
    /\ \A k \in (j + 1)..(i - 1) : ~MissingAt(ws, params, k)
\* the k-th placeholder of the node's url takes the k-th present value; the
\* placeholders left over stay
PositionalFill(pattern, params) ==
  LET u == NodeURL(pattern)
      vs == Present(Wildcards(pattern), params)
      rank(i) == Cardinality({j \in 1..i : u[j] = urlPlaceholder})
  IN [i \in 1..Len(u) |->
        IF u[i] = urlPlaceholder /\ rank(i) <= Len(vs)
        THEN Lookup(params, vs[rank(i)]) ELSE u[i]]
\* the params without those the leaf has names for
Unused(pattern, params) ==
  {e \in params : \A i \in 1..Len(Wildcards(pattern)) : Wildcards(pattern)[i] # e[1]}
\* the leaf is the one route of the tries, and its list has several entries
OnlyLeafOfSeveral(leaf) ==
  /\ OnlyControllerLeaf(leaf)
  /\ Len(Wildcards(leaf.pattern)) >= 2

\* C22: URLFor on a leaf without regexps whose wildcard list has several
\* entries fills the placeholders in the list's order from the parameters of
\* the same names, and passes over at most one missing parameter in the whole
\* list: with two or more parameters missing it returns "", whatever markers
\* the list holds.
C22_Original ==
  [][\A values \in FillValues :
       URLFor(FillEndpoint, values) =>
         \A leaf \in AllLeaves :
           OnlyLeafOfSeveral(leaf) =>
             LET ws == Wildcards(leaf.pattern)
                 params == MakeParams({}, values)
             IN /\ ~url'.result.empty =>
                     /\ url'.result.path = PositionalFill(leaf.pattern, params)
                     /\ url'.result.query = Unused(leaf.pattern, params)
                /\ NumMissing(ws, params) >= 2 => url'.result = EmptyURL]_vars

\* /?:a/?:b is the one route and URLFor("pkg.UserController.Get") without
\* parameters has returned a URL: both placeholders are still in it
C22_Witness ==
  /\ registrations = 1
  /\ \E leaf \in AllLeaves :
       /\ OnlyLeafOfSeveral(leaf)
       /\ leaf.pattern = <<"?:a", "?:b">>
  /\ url = [endpoint |-> FillEndpoint,
            values |-> <<>>,
            result |-> [empty |-> FALSE,
                        path |-> <<urlPlaceholder, urlPlaceholder>>,
                        query |-> {}]]

\* what holds: a missing parameter is passed over when a marker stands before
\* it with no missing parameter in between, one for each marker; the URL is ""
\* exactly when some missing parameter has no such marker
C22_SkipAfterEachMarker ==
  [][\A values \in FillValues :
       URLFor(FillEndpoint, values) =>
         \A leaf \in AllLeaves :
           OnlyLeafOfSeveral(leaf) =>
             LET ws == Wildcards(leaf.pattern)
                 params == MakeParams({}, values)
             IN IF \A i \in 1..Len(ws) :
                     MissingAt(ws, params, i) => Armed(ws, params, i)
                THEN url'.result =
                       [empty |-> FALSE,
                        path |-> PositionalFill(leaf.pattern, params),
                        query |-> Unused(leaf.pattern, params)]
                ELSE url'.result = EmptyURL]_vars

\* ------------------------------------------------------------------------
\* C23
\* ------------------------------------------------------------------------

\* C23: a URL that URLFor returns is that of a leaf, with the parameters the
\* caller gave and the leaf did not fill a placeholder with as its query
\* string: the leaves and tries that geturl went through before without a URL
\* have taken no parameter away.
C23_Original ==
  [][\A values \in FillValues :
       (URLFor(FillEndpoint, values) /\ ~url'.result.empty) =>
         \E leaf \in AllLeaves :
           LET params == MakeParams({}, values)
           IN /\ url'.result.path = PositionalFill(leaf.pattern, params)
              /\ url'.result.query = Unused(leaf.pattern, params)]_vars

\* /:a/:b is in the trie of GET and /user in the trie of POST; URLFor given
\* :a = 1 has returned /user without the query string :a=1
C23_Witness ==
  /\ \E leaf \in Leaves("GET") : leaf.pattern = <<":a", ":b">>
  /\ \E leaf \in Leaves("POST") : leaf.pattern = <<"user">>
  /\ Cardinality(AllLeaves) = 2
  /\ url = [endpoint |-> FillEndpoint,
            values |-> <<":a", "1">>,
            result |-> [empty |-> FALSE, path |-> <<"user">>, query |-> {}]]

\* what holds: the query string of a URL returned holds parameters of the
\* caller only
C23_QueryWithin ==
  [][\A values \in FillValues :
       (URLFor(FillEndpoint, values) /\ ~url'.result.empty) =>
         url'.result.query \subseteq MakeParams({}, values)]_vars


====
